---- MODULE Spec2Model ----
(***************************************************************************)
(* A model of the reliability layer of ftp-sync-watcher:                   *)
(*   - GlobalConnectionManager  (src/src/core/connectionPool.ts)           *)
(*   - ConnectionPool           (src/src/core/connectionPool.ts)           *)
(*   - OperationQueue           (src/src/core/operationQueue.ts)           *)
(*   - FileWatcher              (src/src/core/fileWatcher.ts)              *)
(* Every component is a record-valued variable; the methods of the source  *)
(* are operators from a record to the record after the call, so that a     *)
(* handler that calls several methods synchronously is one action.         *)
(* Time is the clock `now` (milliseconds): a timer is never early, it may  *)
(* be late.                                                                *)
(***************************************************************************)
EXTENDS Integers, Sequences, FiniteSets, TLC

VARIABLES now, gcm, gh, oq, fw, fh, cp

vars == <<now, gcm, gh, oq, fw, fh, cp>>

Max(a, b) == IF a >= b THEN a ELSE b
Min(a, b) == IF a <= b THEN a ELSE b

\* Remove the first occurrence of x from the sequence s (Array.findIndex + splice).
RECURSIVE RemoveFirst(_, _)
RemoveFirst(s, x) ==
    IF s = <<>> THEN <<>>
    ELSE IF Head(s) = x THEN Tail(s)
    ELSE <<Head(s)>> \o RemoveFirst(Tail(s), x)

SeqSet(s) == {s[i] : i \in 1..Len(s)}

(***************************************************************************)
(* Bounds of the model                                                     *)
(***************************************************************************)
NReq == 2          \* concurrent acquireSlot callers
MaxNow == 150000   \* the clock stops here

(***************************************************************************)
(* GlobalConnectionManager                                                 *)
(***************************************************************************)
maxGlobalConnections == 2
rateLimitDelay == 60000
slotWaitTimeout == 120000

Req == 1..NReq

\* The clock advances in steps of half a cooldown.
TimeStep == rateLimitDelay \div 2

\* State after construction: no connection held, nobody waiting, no cooldown.
\* st[r] is the position of caller r inside acquireSlot:
\*   "none" not calling, "sleep" in the cooldown wait, "queued" in
\*   connectionQueue, "granted" resolved, "rejected" timed out.
GcmInit ==
    [activeConnections |-> 0,
     connectionQueue   |-> <<>>,
     rateLimitedUntil  |-> 0,
     st     |-> [r \in Req |-> "none"],
     wake   |-> [r \in Req |-> 0],
     expire |-> [r \in Req |-> 0]]

setRateLimited(g, t) == [g EXCEPT !.rateLimitedUntil = t + rateLimitDelay]

isRateLimitedNever(g, t) == FALSE
isRateLimited(g, t) == t < g.rateLimitedUntil

getRateLimitRemaining(g, t) == Max(0, g.rateLimitedUntil - t)

\* acquireSlot from the capacity test on (after the optional cooldown wait).
acquireSlotNoCapacityTest(g, r, t) ==
    [g EXCEPT !.activeConnections = @ + 1, !.st[r] = "granted",
              !.wake[r] = 0, !.expire[r] = 0]
acquireSlotAfterWait(g, r, t) ==
    IF g.activeConnections < maxGlobalConnections
    THEN [g EXCEPT !.activeConnections = @ + 1, !.st[r] = "granted",
                   !.wake[r] = 0, !.expire[r] = 0]
    ELSE [g EXCEPT !.connectionQueue = Append(@, r), !.st[r] = "queued",
                   !.wake[r] = 0, !.expire[r] = t + slotWaitTimeout]

\* acquireSlot up to its first suspension.
acquireSlot(g, r, t) ==
    IF isRateLimited(g, t)
    THEN [g EXCEPT !.st[r] = "sleep", !.wake[r] = t + getRateLimitRemaining(g, t)]
    ELSE acquireSlotAfterWait(g, r, t)

\* The entry of a request whose promise the 2 minute timer has rejected.
Stale == 0

\* The 2 minute timer of a queued request: findIndex compares the resolve of
\* each entry, which is the wrapper pushed below it, with the resolve of the
\* promise, finds none and removes nothing; the promise is rejected and its
\* entry stays in the wait list.
slotTimeout(g, r) ==
    [g EXCEPT !.connectionQueue = [i \in DOMAIN @ |-> IF @[i] = r THEN Stale ELSE @[i]],
              !.st[r] = "rejected",
              !.expire[r] = 0]

\* The wrapped resolve of an entry: activeConnections++ and resolve, which
\* does nothing to a promise that has been rejected.
grantQueued(g, r) ==
    IF r = Stale
    THEN [g EXCEPT !.activeConnections = @ + 1]
    ELSE [g EXCEPT !.activeConnections = @ + 1, !.st[r] = "granted", !.expire[r] = 0]

releaseSlotLifo(g) ==
    LET a == Max(0, g.activeConnections - 1)
        g1 == [g EXCEPT !.activeConnections = a]
        n == Len(g.connectionQueue)
    IN IF n > 0 /\ a < maxGlobalConnections
       THEN grantQueued([g1 EXCEPT !.connectionQueue = SubSeq(@, 1, n - 1)],
                        g.connectionQueue[n])
       ELSE g1
releaseSlotNoClamp(g) ==
    LET a == g.activeConnections - 1
        g1 == [g EXCEPT !.activeConnections = a]
    IN IF Len(g.connectionQueue) > 0 /\ a < maxGlobalConnections
       THEN grantQueued([g1 EXCEPT !.connectionQueue = Tail(@)],
                        Head(g.connectionQueue))
       ELSE g1
releaseSlot(g) ==
    LET a == Max(0, g.activeConnections - 1)
        g1 == [g EXCEPT !.activeConnections = a]
    IN IF Len(g.connectionQueue) > 0 /\ a < maxGlobalConnections
       THEN grantQueued([g1 EXCEPT !.connectionQueue = Tail(@)],
                        Head(g.connectionQueue))
       ELSE g1

(***************************************************************************)
(* History of the admission controller, for the properties only.           *)
(*   callOrder      the callers with an unsettled acquireSlot, oldest first*)
(*   waitOrder      the callers in the wait list, in order of entry        *)
(*   overtaken[r]   a later call was granted while r's call was unsettled  *)
(*   cooldownAtCall[r]  rateLimitedUntil when r called, 0 if no cooldown   *)
(*   fromQueue      the callers whose unsettled grant came from the wait   *)
(*                  list                                                   *)
(*   releasedAtZero releaseSlot() has been called with no slot held        *)
(***************************************************************************)
GhInit ==
    [callOrder |-> <<>>,
     waitOrder |-> <<>>,
     overtaken |-> [r \in Req |-> FALSE],
     cooldownAtCall |-> [r \in Req |-> 0],
     fromQueue |-> {},
     releasedAtZero |-> FALSE]

\* History after a step that took the controller from g to g2.
GhStep(h, g, g2) ==
    LET granted == {r \in Req : g.st[r] # "granted" /\ g2.st[r] = "granted"}
        entered == {r \in Req : g.st[r] # "queued" /\ g2.st[r] = "queued"}
        left    == {r \in Req : g.st[r] = "queued" /\ g2.st[r] # "queued"}
        Later(r) == {x \in Req : \E i, j \in 1..Len(h.callOrder) :
                        /\ h.callOrder[i] = r /\ h.callOrder[j] = x /\ i < j}
        w1 == SelectSeq(h.waitOrder, LAMBDA x : x \notin left)
        w2 == IF entered = {} THEN w1 ELSE Append(w1, CHOOSE x \in entered : TRUE)
    IN [h EXCEPT
          !.waitOrder = w2,
          !.fromQueue = @ \cup {r \in granted : g.st[r] = "queued"},
          !.overtaken = [r \in Req |->
              h.overtaken[r] \/ (g2.st[r] \in {"sleep", "queued"}
                                 /\ \E x \in granted : x \in Later(r))]]

(***************************************************************************)
(* Actions of the admission controller with free callers                   *)
(***************************************************************************)
GTick ==
    /\ now + TimeStep <= MaxNow
    /\ now' = now + TimeStep
    /\ UNCHANGED <<gcm, gh, oq, fw, fh, cp>>

\* Caller r calls acquireSlot().
GAcquire(r) ==
    /\ gcm.st[r] = "none"
    /\ LET h1 == [gh EXCEPT !.callOrder = Append(@, r),
                            !.cooldownAtCall[r] =
                                IF now < gcm.rateLimitedUntil
                                THEN gcm.rateLimitedUntil ELSE 0]
           g2 == acquireSlot(gcm, r, now)
       IN /\ gcm' = g2
          /\ gh' = GhStep(h1, gcm, g2)
    /\ UNCHANGED <<now, oq, fw, fh, cp>>

\* The cooldown timer of a sleeping caller fires.
GWake(r) ==
    /\ gcm.st[r] = "sleep"
    /\ now >= gcm.wake[r]
    /\ gcm' = acquireSlotAfterWait(gcm, r, now)
    /\ gh' = GhStep(gh, gcm, gcm')
    /\ UNCHANGED <<now, oq, fw, fh, cp>>

\* The 120 s timer of a queued caller fires.
GSlotTimeout(r) ==
    /\ gcm.st[r] = "queued"
    /\ now >= gcm.expire[r]
    /\ gcm' = slotTimeout(gcm, r)
    /\ gh' = GhStep(gh, gcm, gcm')
    /\ UNCHANGED <<now, oq, fw, fh, cp>>

\* The caller's await of acquireSlot() returns (or throws).
GSettle(r) ==
    /\ gcm.st[r] \in {"granted", "rejected"}
    /\ gcm' = [gcm EXCEPT !.st[r] = "none"]
    /\ gh' = [gh EXCEPT !.callOrder = RemoveFirst(@, r),
                        !.fromQueue = @ \ {r},
                        !.overtaken[r] = FALSE,
                        !.cooldownAtCall[r] = 0]
    /\ UNCHANGED <<now, oq, fw, fh, cp>>

\* Somebody calls releaseSlot().
GRelease ==
    /\ gcm' = releaseSlot(gcm)
    /\ gh' = GhStep([gh EXCEPT !.releasedAtZero = @ \/ gcm.activeConnections = 0],
                    gcm, gcm')
    /\ UNCHANGED <<now, oq, fw, fh, cp>>

\* Somebody calls setRateLimited().
GSetRateLimited ==
    /\ gcm' = setRateLimited(gcm, now)
    /\ UNCHANGED <<now, gh, oq, fw, fh, cp>>

(***************************************************************************)
(* OperationQueue                                                          *)
(***************************************************************************)
MaxOps == 2        \* enqueue calls
MaxNowQ == 9000    \* the clock of the queue stops here

MaxFill == 98      \* waiting operations from which on every interleaving is followed
MaxSpare == 2      \* enqueue calls beyond the capacity of the queue
MaxEnded == 1      \* operations whose work ends
MaxNowC == 3000    \* the clock of the queue near its capacity stops here

maxQueueSize == 100
defaultMaxRetries == 3
retryBackoff == 1000

OpId == 1..MaxOps

\* The priorities the callers pass to enqueue, and the timeout the queue is
\* constructed with (config.timeout), which FileWatcher also passes to enqueue.
Priorities == {0, 1}
Concurrencies == {1, 2, 3}
Timeouts == {3 * retryBackoff, 6 * retryBackoff}

\* The clock of the queue advances in steps of the longest backoff.
QTimeStep == defaultMaxRetries * retryBackoff

\* Error messages, by the signature substrings they contain.
\*   "read ECONNRESET"        a transport error
\*   "550 Permission denied"  an application error of the server
\*   "timed out after"        the queue's own `Operation <id> timed out after <n>ms`
WorkErrors == {"read ECONNRESET", "550 Permission denied"}
QueueTimeoutError == "timed out after"

\* The messages that contain one of retryablePatterns, compared in lower case:
\* 'timeout', 'econnreset', 'etimedout', 'socket', 'connection'.  The queue's
\* own message reads "timed out", which contains none of them.
isRetryableErrorAlways(err) == TRUE
isRetryableErrorOrTimedOut(err) == err \in {"read ECONNRESET", "timed out after"}
isRetryableError(err) == err \in {"read ECONNRESET"}

\* An operation the queue has not seen yet.
\*   phase   "new" | "queued" | "executing" | "backoff" | "done"
\*   handle  "pending" | "resolved" | the error the promise rejected with
\*   due     the time the pending timer of the phase fires (timeout, backoff)
\*   zombies executions of the work the queue stopped waiting for (timed out)
\*           that are still running
\*   execs, completed   how often the work was started, and ended in success
NoOp ==
    [priority |-> 0, addedAt |-> 0, timeout |-> 0, retries |-> 0,
     maxRetries |-> 0, phase |-> "new", handle |-> "pending", due |-> 0,
     zombies |-> 0, execs |-> 0, completed |-> 0, swallowed |-> "none"]

\* new OperationQueue(concurrency, defaultTimeout): the concurrency is
\* clamped to 1.  polling: the loop of processQueue is in its 50 ms wait.
OqNewNoClamp(concurrency, defaultTimeout) ==
    [queue |-> <<>>, processing |-> FALSE, status |-> "idle",
     concurrency |-> concurrency, activeOperations |-> 0,
     operationCounter |-> 0, isPaused |-> FALSE, polling |-> FALSE,
     defaultTimeout |-> defaultTimeout,
     op |-> [k \in OpId |-> NoOp]]
OqNew(concurrency, defaultTimeout) ==
    [queue |-> <<>>, processing |-> FALSE, status |-> "idle",
     concurrency |-> Min(concurrency, 1), activeOperations |-> 0,
     operationCounter |-> 0, isPaused |-> FALSE, polling |-> FALSE,
     defaultTimeout |-> defaultTimeout,
     op |-> [k \in OpId |-> NoOp]]

\* The operation o once its promise is settled with `outcome`: the queue
\* holds it no longer; what remains is the caller's promise (settled once),
\* the work still running and the counts.
settled(o, outcome) ==
    [NoOp EXCEPT !.phase = "done",
                 !.handle = IF o.handle = "pending" THEN outcome ELSE o.handle,
                 !.zombies = o.zombies, !.completed = o.completed,
                 !.swallowed = o.swallowed]

\* executeOperation up to its await: the work is started under a timeout.
executeOperation(q, k, t) ==
    [q EXCEPT !.activeOperations = @ + 1,
              !.op[k].phase = "executing",
              !.op[k].due = t + q.op[k].timeout,
              !.op[k].execs = @ + 1]

\* The expiry test of processQueue for the operation taken from the head.
isExpiredNever(o, t) == FALSE
isExpired(o, t) == t - o.addedAt > o.timeout * 2

\* The loop of processQueue, from the test of the while to its next await or
\* to its end.
RECURSIVE processLoopPaused(_, _)
processLoopPaused(q, t) ==
    IF Len(q.queue) > 0
    THEN IF q.activeOperations >= q.concurrency
         THEN [q EXCEPT !.polling = TRUE]
         ELSE LET k == Head(q.queue)
                  q1 == [q EXCEPT !.queue = Tail(@)]
              IN IF isExpired(q.op[k], t)
                 THEN processLoopPaused(
                        [q1 EXCEPT !.op[k] =
                            [settled(@, "Operation expired in queue")
                                EXCEPT !.execs = q.op[k].execs,
                                       !.maxRetries = q.op[k].maxRetries]],
                        t)
                 ELSE processLoopPaused(executeOperation(q1, k, t), t)
    ELSE [q EXCEPT !.processing = FALSE, !.polling = FALSE,
                   !.status = IF Len(q.queue) > 0 THEN "processing" ELSE "idle"]
RECURSIVE processLoop(_, _)
processLoop(q, t) ==
    IF Len(q.queue) > 0 /\ ~q.isPaused
    THEN IF q.activeOperations >= q.concurrency
         THEN [q EXCEPT !.polling = TRUE]
         ELSE LET k == Head(q.queue)
                  q1 == [q EXCEPT !.queue = Tail(@)]
              IN IF isExpired(q.op[k], t)
                 THEN processLoop(
                        [q1 EXCEPT !.op[k] =
                            [settled(@, "Operation expired in queue")
                                EXCEPT !.execs = q.op[k].execs,
                                       !.maxRetries = q.op[k].maxRetries]],
                        t)
                 ELSE processLoop(executeOperation(q1, k, t), t)
    ELSE [q EXCEPT !.processing = FALSE, !.polling = FALSE,
                   !.status = IF Len(q.queue) > 0 THEN "processing" ELSE "idle"]

processQueue(q, t) ==
    IF q.isPaused \/ q.processing
    THEN q
    ELSE processLoop([q EXCEPT !.processing = TRUE, !.status = "processing"], t)

\* The index enqueue inserts at: before the first operation of lower priority.
RECURSIVE findIndexNotHigher(_, _, _)
findIndexNotHigher(q, prio, i) ==
    IF i > Len(q.queue) THEN Len(q.queue) + 1
    ELSE IF q.op[q.queue[i]].priority <= prio THEN i
    ELSE findIndexNotHigher(q, prio, i + 1)
findIndex(q, prio, i) ==
    LET lower == {j \in i..Len(q.queue) : q.op[q.queue[j]].priority < prio}
    IN IF lower = {} THEN Len(q.queue) + 1
       ELSE CHOOSE j \in lower : \A l \in lower : j <= l

InsertAt(s, i, x) == SubSeq(s, 1, i - 1) \o <<x>> \o SubSeq(s, i, Len(s))

\* enqueue(operation, {priority}) as call number k: timeout and maxRetries
\* take their defaults.
isFullAbove(q) == Len(q.queue) > maxQueueSize
isFull(q) == Len(q.queue) >= maxQueueSize

enqueue(q, k, prio, t) ==
    IF isFull(q)
    THEN [q EXCEPT !.op[k] = settled(@, "Operation queue is full")]
    ELSE LET q1 == [q EXCEPT
                      !.operationCounter = @ + 1,
                      !.op[k] = [NoOp EXCEPT !.priority = prio, !.addedAt = t,
                                             !.timeout = q.defaultTimeout,
                                             !.maxRetries = defaultMaxRetries,
                                             !.phase = "queued"],
                      !.queue = InsertAt(@, findIndex(q, prio, 1), k)]
         IN processQueue(q1, t)

\* The retry test of executeOperation.
shouldRetryOneLess(o, err) == o.retries < o.maxRetries - 1 /\ isRetryableError(err)
shouldRetry(o, err) == o.retries < o.maxRetries /\ isRetryableError(err)

\* executeOperation from the settling of withTimeout on: `outcome` is "ok" or
\* the message of the error.
finishOperation(q, k, outcome, t) ==
    LET o == q.op[k]
        q1 == IF outcome = "ok"
              THEN [q EXCEPT !.op[k] = settled(@, "resolved")]
              ELSE IF shouldRetry(o, outcome)
              THEN [q EXCEPT !.op[k].retries = @ + 1,
                             !.op[k].phase = "backoff",
                             !.op[k].due = t + retryBackoff * (o.retries + 1)]
              ELSE [q EXCEPT !.op[k] = settled(@, outcome)]
        q2 == [q1 EXCEPT !.activeOperations = @ - 1]
    IN IF Len(q2.queue) > 0 /\ ~q2.isPaused THEN processQueue(q2, t) ELSE q2

\* The timer of a retry: the operation goes back to the front of the queue.
requeueNoProcess(q, k, t) ==
    [q EXCEPT !.queue = <<k>> \o @, !.op[k].phase = "queued", !.op[k].due = 0]
requeue(q, k, t) ==
    processQueue([q EXCEPT !.queue = <<k>> \o @, !.op[k].phase = "queued",
                           !.op[k].due = 0], t)

pause(q) == [q EXCEPT !.isPaused = TRUE, !.status = "paused"]

resume(q, t) == processQueue([q EXCEPT !.isPaused = FALSE], t)

clearNoReject(q) == [q EXCEPT !.queue = <<>>]
clear(q) ==
    [q EXCEPT !.queue = <<>>,
              !.op = [k \in DOMAIN q.op |->
                        IF k \in SeqSet(q.queue)
                        THEN settled(q.op[k], "Queue cleared")
                        ELSE q.op[k]]]

(***************************************************************************)
(* FileWatcher                                                             *)
(***************************************************************************)
MaxUploads == 2    \* uploadFile calls in progress at a time
MaxNowW == 2500    \* the clock of the watcher stops here

debounceMs == 500
activeUploadDelay == 1000

\* The key of an event is the path of the file; the ignore patterns of the
\* configuration cover the second path.
WatchedPaths == {"index.html"}
IgnoredPaths == {".git/HEAD"}
Paths == WatchedPaths \cup IgnoredPaths
\* 'created' takes the branches of 'changed' everywhere (priority 1, upload).
ChangeTypes == {"changed", "deleted"}
UploadId == 1..MaxUploads

\* The clock of the watcher advances in steps of the debounce delay.
WTimeStep == debounceMs

isIgnored(p) == p \in IgnoredPaths

NoTimer == [type |-> "none", due |-> 0]
NoUpload == [path |-> "none", phase |-> "none", due |-> 0]

\* The watcher after construction.
\*   debounceTimers  the Map from key to the handle of the timer
\*   timers          the timers that are set and not cleared
\*   opKey, opType   what the callbacks of an enqueued operation captured
\*   upload          the uploadFile calls: "inflight" until executeWithRetry
\*                   settles, "clearing" until the 1 s timer of the finally
\*                   block fires
\*   run             "running" from the end of start() on, "stopping" while
\*                   stop() awaits the dispose() of the pool, "stopped"
\*                   from then on; the listeners of the file system events
\*                   exist while it is "running"
\* The watcher is taken from the end of its first start() on.
FwInit ==
    [run |-> "running",
     debounceTimers |-> [p \in Paths |-> NoTimer],
     timers |-> {},
     pendingOperations |-> {},
     activeUploads |-> {},
     opKey |-> [k \in OpId |-> "none"],
     opType |-> [k \in OpId |-> "none"],
     upload |-> [u \in UploadId |-> NoUpload]]

Timer(p, handle) == [path |-> p, type |-> handle.type, due |-> handle.due]

\* The timers when the existing timer of the key is left running.
keepExisting(w, p) == w.timers

\* clearTimeout(this.debounceTimers.get(key))
clearExisting(w, p) ==
    IF w.debounceTimers[p] # NoTimer
    THEN w.timers \ {Timer(p, w.debounceTimers[p])}
    ELSE w.timers

\* handleFileChange(type, uri) at time t.
handleFileChangeNoClear(w, type, p, t) ==
    IF isIgnored(p) \/ p \in w.activeUploads
    THEN w
    ELSE LET timer == [type |-> type, due |-> t + debounceMs]
         IN [w EXCEPT !.timers = @ \cup {Timer(p, timer)},
                      !.debounceTimers[p] = timer]
handleFileChange(w, type, p, t) ==
    IF isIgnored(p) \/ p \in w.activeUploads
    THEN w
    ELSE LET timer == [type |-> type, due |-> t + debounceMs]
         IN [w EXCEPT !.timers = clearExisting(w, p) \cup {Timer(p, timer)},
                      !.debounceTimers[p] = timer]

\* The number of the next enqueue call.
NextOp(q) == CHOOSE k \in OpId :
                 /\ q.op[k].phase = "new"
                 /\ \A j \in OpId : j < k => q.op[j].phase # "new"

\* queueFileChange(type, uri, relativePath): the watcher and the queue after
\* the call.
queueFileChange(w, q, type, p, t) ==
    LET k == NextOp(q)
        priority == IF type = "deleted" THEN 0 ELSE 1
    IN [w |-> [w EXCEPT !.pendingOperations = @ \cup {p},
                        !.opKey[k] = p,
                        !.opType[k] = type],
        q |-> enqueue(q, k, priority, t)]

\* The callback of the debounce timer.
debounceFired(w, q, timer, t) ==
    LET p == timer.path
        w1 == [w EXCEPT !.timers = @ \ {timer},
                        !.debounceTimers[p] = NoTimer]
    IN IF p \in w.pendingOperations \/ p \in w.activeUploads
       THEN [w |-> w1, q |-> q]
       ELSE queueFileChange(w1, q, timer.type, p, t)

\* The then and catch callbacks of queueFileChange, for the operations whose
\* promise the queue has settled.
onSettled(w, q) ==
    LET done == {k \in OpId : w.opKey[k] # "none" /\ q.op[k].handle # "pending"}
    IN [w EXCEPT !.pendingOperations = @ \ {w.opKey[k] : k \in done},
                 !.opKey = [k \in OpId |-> IF k \in done THEN "none" ELSE @[k]],
                 !.opType = [k \in OpId |-> IF k \in done THEN "none" ELSE @[k]]]

\* stop() up to its await of connectionPool.dispose(): the watcher and the
\* queue after it.
stop(w, q) ==
    [w |-> [w EXCEPT !.timers = {},
                     !.debounceTimers = [p \in Paths |-> NoTimer],
                     !.pendingOperations = {},
                     !.activeUploads = {},
                     !.run = "stopping"],
     q |-> clear(q)]

\* uploadFile(localPath) up to its await, as call u.
uploadFile(w, u, p) ==
    IF isIgnored(p)
    THEN w
    ELSE [w EXCEPT !.activeUploads = @ \cup {p},
                   !.timers = clearExisting(w, p),
                   !.debounceTimers[p] = NoTimer,
                   !.upload[u] = [path |-> p, phase |-> "inflight", due |-> 0]]

\* The finally block of uploadFile, and the callback of its timer.
uploadSettled(w, u, t) ==
    [w EXCEPT !.upload[u].phase = "clearing",
              !.upload[u].due = t + activeUploadDelay]

uploadCleared(w, u) ==
    [w EXCEPT !.activeUploads = @ \ {w.upload[u].path},
              !.upload[u] = NoUpload]

(***************************************************************************)
(* History of the watcher, for the statement of the properties             *)
(*   dirty     the paths with a change event after which no transfer of    *)
(*             the path has started                                        *)
(*   lastType, burst   the type of the last event of the path and the      *)
(*             number of events (at most 2 are counted) since its timer    *)
(*             was first set                                               *)
(*   guarded   the timers set by an event that arrived between the start   *)
(*             of an uploadFile call for the path and 1 s after its end    *)
(*   opBurst, opLast, opGuarded   the same, as they stood when the         *)
(*             operation was enqueued                                      *)
(*   retryAtClear   the operations that waited for the timer of a retry    *)
(*             when clear() was called                                     *)
(***************************************************************************)
FhInit ==
    [retryAtClear |-> {},
     dirty |-> {},
     lastType |-> [p \in Paths |-> "none"],
     burst |-> [p \in Paths |-> 0],
     guarded |-> {},
     opBurst |-> [k \in OpId |-> 0],
     opLast |-> [k \in OpId |-> "none"],
     opGuarded |-> [k \in OpId |-> FALSE]]

\* An uploadFile call for p is in flight or has settled less than 1 s ago.
InUploadWindow(w, p, t) ==
    \E u \in UploadId :
        /\ w.upload[u].path = p
        /\ \/ w.upload[u].phase = "inflight"
           \/ w.upload[u].phase = "clearing" /\ t < w.upload[u].due

\* The history when clear() is called on q.
FhAtClear(h, q) ==
    [h EXCEPT !.retryAtClear = @ \cup {k \in DOMAIN q.op : q.op[k].phase = "backoff"}]

\* The history after a step of the queue from q to q2, w being the watcher
\* before the callbacks of the settled promises.
FhAfterQueue(h, w, q, q2) ==
    LET started == {k \in OpId : q2.op[k].execs > q.op[k].execs}
        done == {k \in OpId : w.opKey[k] # "none" /\ q2.op[k].handle # "pending"}
    IN [h EXCEPT !.dirty = @ \ {w.opKey[k] : k \in started},
                 !.opBurst = [k \in OpId |-> IF k \in done THEN 0 ELSE @[k]],
                 !.opLast = [k \in OpId |-> IF k \in done THEN "none" ELSE @[k]],
                 !.opGuarded = [k \in OpId |-> IF k \in done THEN FALSE ELSE @[k]]]

(***************************************************************************)
(* ConnectionPool                                                          *)
(***************************************************************************)
NCallers == 2      \* executeWithRetry calls in progress at a time
MaxNowP == 120000  \* the clock of the pool stops here
MaxNowS == 150000  \* the clock of the pool without forceReconnect stops here
MaxNowT == 90000   \* the clock of the queue that works through the pool stops here

maxReconnectAttempts == 5
reconnectDelay == 1000
maxReconnectDelay == 30000
operationTimeout == 30000
maxRetries == 3
maxWait == 60000
keepAliveInterval == 60000
healthCheckTimeout == 5000

\* The coroutines of the pool: the executeWithRetry calls, and one
\* forceReconnect call (actor 0).
Callers == 1..NCallers
ForceId == 0
Actors == Callers \cup {ForceId}

\* The caller of acquireSlot: forceReconnect is request 1, the connect of an
\* executeWithRetry call is request 2.
SlotReq(a) == IF a = ForceId THEN 1 ELSE 2

\* Error messages, by the signature substrings they contain.
RateLimitError == "530 maximum number of connections"
ConnectErrors == {"connect ECONNREFUSED", RateLimitError}
OperationErrors == {"read ECONNRESET", "550 Permission denied", RateLimitError}

\* isConnectionError: the messages above that contain one of connectionErrors
\* ('econnreset', 'econnrefused', 'connection', 'timeout', '530', ...).
isConnectionError(err) ==
    err \in {"connect ECONNREFUSED", "read ECONNRESET", RateLimitError,
             "Connection timeout", "Connection slot timeout",
             "Reconnection failed", "operation timeout"}

isRateLimitError(err) == err = RateLimitError

\* An actor that is not running.
\*   pc   "idle" | "lockWait" | "acquireSlot" | "connecting" | "operating" |
\*        "rateLimitWait" | "reconnectRateWait" | "reconnectDelay" |
\*        "waitForReconnect": the await the coroutine is suspended at
\*   ctx  who called connect(): "get" (getConnection), "reconnect", "force"
\*   due  the time the timer of the await fires
\*   op   the operation of the queue whose work the call is, 0 if none
\*   swallowed  (history) the error the operation caught and did not throw
NoActor ==
    [pc |-> "idle", ctx |-> "none", attempt |-> 0, due |-> 0, lastError |-> "none",
     op |-> 0, swallowed |-> "none"]

\* The pool after construction.
\*   client   "none" (null) | "connecting" | "open" | "closed": a client
\*            object is "open" while its isConnected() is true
\*   operationMutex   the calls chained on the mutex whose releaseLock has
\*            not been called, in the order of the chain
\*   clientOf the connect() call that created the client and awaits its
\*            connect(), as a set of at most one actor
\*   others   slots held by the other pools of the process
\*   maxReached  (history, for the properties only) reconnect() has thrown
\*            'Max reconnection attempts reached' and forceReconnect() has
\*            not been called since
\*   keepResults  (for the properties only) whether a call that has
\*            settled keeps its result in lastError: "ok" or the error thrown
\*   monitored    whether the health check is part of the model: where it is
\*            not, its timer and lastActivity, which nothing else reads, are
\*            left as they are
\*   healthCheckInterval  "off" (null) | "on", and checkDue, the time the
\*            interval fires next
\*   probe    "none" | "running": the client.exists() of the health check is
\*            awaited, under a timeout that fires at probeDue
\*   disposing    dispose() awaits the disconnect of the client
\*   disposed     (for the properties only) dispose() has returned and
\*            executeWithRetry has not been called since
CpInit ==
    [client |-> "none", clientOf |-> {}, maxReached |-> FALSE,
     keepResults |-> FALSE, health |-> "disconnected", reconnectAttempts |-> 0,
     isReconnecting |-> FALSE, pendingOperations |-> 0, hasSlot |-> FALSE,
     operationMutex |-> <<>>, others |-> 0,
     monitored |-> FALSE, healthCheckInterval |-> "off", checkDue |-> 0,
     lastActivity |-> 0, probe |-> "none", probeDue |-> 0, disposing |-> FALSE,
     disposed |-> FALSE,
     actor |-> [a \in Actors |-> NoActor]]

\* The operators below take and return the pair m = [p |-> the pool,
\* g |-> the global connection manager].
suspend(m, a, pc, ctx, due) ==
    [m EXCEPT !.p.actor[a].pc = pc, !.p.actor[a].ctx = ctx, !.p.actor[a].due = due]

\* if (this.hasSlot) { releaseSlot(); this.hasSlot = false }
dropSlot(m) ==
    IF m.p.hasSlot
    THEN [p |-> [m.p EXCEPT !.hasSlot = FALSE], g |-> releaseSlot(m.g)]
    ELSE m

\* this.lastActivity = Date.now()
touch(m, t) == IF m.p.monitored THEN [m EXCEPT !.p.lastActivity = t] ELSE m

stopHealthCheck(m) ==
    [m EXCEPT !.p.healthCheckInterval = "off", !.p.checkDue = 0]

\* startHealthCheck(): the interval is replaced by a new one.
startHealthCheck(m, t) ==
    IF m.p.monitored
    THEN [m EXCEPT !.p.healthCheckInterval = "on",
                   !.p.checkDue = t + keepAliveInterval \div 2]
    ELSE m

\* await previousMutex has returned for call c: the calls chained before it
\* have all released the lock.
lockGrantedAlways(p, c) == TRUE
lockGranted(p, c) == p.operationMutex # <<>> /\ Head(p.operationMutex) = c

\* connect() from the slot on: the client is created and client.connect()
\* is awaited under the timeout.
connectAfterSlot(m, a, ctx, t) ==
    suspend([m EXCEPT !.p.hasSlot = TRUE,
                      !.p.client = "connecting",
                      !.p.clientOf = {a},
                      !.g.st[SlotReq(a)] = "none"],
            a, "connecting", ctx, t + operationTimeout)

\* connect() up to its await (the disconnect of the old client is taken to
\* return at once).
connect(m, a, ctx, t) ==
    LET m1 == [m EXCEPT !.p.isReconnecting = TRUE]
        m2 == IF m1.p.client # "none"
              THEN dropSlot([m1 EXCEPT !.p.client = "none", !.p.clientOf = {}])
              ELSE m1
        m3 == [m2 EXCEPT !.g = acquireSlot(m2.g, SlotReq(a), t)]
    IN IF m2.p.hasSlot
       THEN connectAfterSlot(m2, a, ctx, t)
       ELSE IF m3.g.st[SlotReq(a)] = "granted"
       THEN connectAfterSlot(m3, a, ctx, t)
       ELSE suspend(m3, a, "acquireSlot", ctx, 0)

\* The operation is started on the client under the timeout.
operate(m, c, t) == suspend(m, c, "operating", "none", t + operationTimeout)

\* getConnection() up to its await or its return.
getConnection(m, c, t) ==
    LET usable == m.p.client # "none" /\ m.p.health = "healthy"
        m1 == IF usable /\ m.p.client # "open"
              THEN dropSlot([m EXCEPT !.p.health = "disconnected",
                                      !.p.client = "none", !.p.clientOf = {}])
              ELSE m
    IN IF usable /\ m.p.client = "open"
       THEN operate(touch(m, t), c, t)
       ELSE IF m1.p.isReconnecting
       THEN suspend(m1, c, "waitForReconnect", "none", t + maxWait)
       ELSE connect(m1, c, "get", t)

\* One iteration of the loop of executeWithRetry, up to its await.
startAttempt(m, c, t) ==
    getConnection([m EXCEPT !.p.pendingOperations = @ + 1], c, t)

\* executeWithRetry settles for call c: the finally block releases the lock,
\* and the call chained next, if it waits, enters the loop.
settleKeepLock(m, c, t) == [m EXCEPT !.p.actor[c] = NoActor]
settle(m, c, t) ==
    LET result == IF m.p.keepResults THEN m.p.actor[c].lastError ELSE "none"
        m1 == [m EXCEPT !.p.operationMutex = RemoveFirst(@, c),
                        !.p.actor[c] = [NoActor EXCEPT
                                          !.lastError = result,
                                          !.swallowed = m.p.actor[c].swallowed]]
        next == Head(m1.p.operationMutex)
    IN IF m1.p.operationMutex # <<>> /\ m1.p.actor[next].pc = "lockWait"
       THEN startAttempt([m1 EXCEPT !.p.actor[next].attempt = 1], next, t)
       ELSE m1

\* The end of an iteration that did not return: attempt++ and the test of
\* the loop; after the loop lastError is thrown.
nextIterationOneMore(m, c, t) ==
    IF m.p.actor[c].attempt + 1 <= maxRetries + 1
    THEN startAttempt([m EXCEPT !.p.actor[c].attempt = @ + 1], c, t)
    ELSE settle(m, c, t)
nextIteration(m, c, t) ==
    IF m.p.actor[c].attempt + 1 <= maxRetries
    THEN startAttempt([m EXCEPT !.p.actor[c].attempt = @ + 1], c, t)
    ELSE settle(m, c, t)

\* reconnect() with the delay of the first attempt before every attempt.
reconnectAfterWaitSameDelay(m, c, t) ==
    IF m.p.reconnectAttempts >= maxReconnectAttempts
    THEN nextIteration([m EXCEPT !.p.health = "failed",
                                 !.p.maxReached = TRUE], c, t)
    ELSE LET n == m.p.reconnectAttempts + 1
             delay == Min(reconnectDelay, maxReconnectDelay)
         IN suspend([m EXCEPT !.p.reconnectAttempts = n,
                              !.p.health = "degraded"],
                    c, "reconnectDelay", "none", t + delay)

\* reconnect() after its rate-limit wait, up to the backoff delay.
reconnectAfterWait(m, c, t) ==
    IF m.p.reconnectAttempts >= maxReconnectAttempts
    THEN nextIteration([m EXCEPT !.p.health = "failed",
                                 !.p.maxReached = TRUE], c, t)
    ELSE LET n == m.p.reconnectAttempts + 1
             delay == Min(reconnectDelay * (2 ^ (n - 1)), maxReconnectDelay)
         IN suspend([m EXCEPT !.p.reconnectAttempts = n,
                              !.p.health = "degraded"],
                    c, "reconnectDelay", "none", t + delay)

reconnect(m, c, t) ==
    IF isRateLimited(m.g, t)
    THEN suspend(m, c, "reconnectRateWait", "none", t + getRateLimitRemaining(m.g, t))
    ELSE reconnectAfterWait(m, c, t)

\* The catch block of the loop of executeWithRetry for the error err.
onAttemptError(m, c, err, t) ==
    LET m1 == [m EXCEPT !.p.pendingOperations = @ - 1,
                        !.p.actor[c].lastError = err]
        last == m.p.actor[c].attempt >= maxRetries
    IN IF isRateLimitError(err)
       THEN LET m2 == [m1 EXCEPT !.g = setRateLimited(m1.g, t),
                                 !.p.health = "rate-limited"]
            IN IF ~last
               THEN suspend(m2, c, "rateLimitWait", "none",
                            t + getRateLimitRemaining(m2.g, t))
               ELSE nextIteration(m2, c, t)
       ELSE IF isConnectionError(err) /\ ~last
       THEN reconnect([m1 EXCEPT !.p.health = "degraded"], c, t)
       ELSE IF ~isConnectionError(err)
       THEN settle(m1, c, t)
       ELSE nextIteration(m1, c, t)

\* The rate-limit wait of executeWithRetry is over.
afterRateLimitWait(m, c, t) ==
    LET m1 == IF m.p.client # "none"
              THEN dropSlot([m EXCEPT !.p.client = "none", !.p.clientOf = {}])
              ELSE m
    IN nextIteration([m1 EXCEPT !.p.health = "disconnected"], c, t)

\* The continuation of the caller of connect().
connectReturned(m, a, t) ==
    CASE m.p.actor[a].ctx = "get" -> operate(m, a, t)
      [] m.p.actor[a].ctx = "reconnect" -> nextIteration(m, a, t)
      [] OTHER -> [m EXCEPT !.p.actor[a] = NoActor]

connectThrew(m, a, err, t) ==
    CASE m.p.actor[a].ctx = "get" -> onAttemptError(m, a, err, t)
      [] m.p.actor[a].ctx = "reconnect" -> nextIteration(m, a, t)
      [] OTHER -> [m EXCEPT !.p.actor[a] = NoActor]

\* connect() after client.connect() has succeeded: the client that is now
\* connected is the one this call created, this.client may be another.
connectSucceeded(m, a, t) ==
    LET own == m.p.clientOf = {a}
        m1 == [m EXCEPT !.p.health = "healthy",
                        !.p.reconnectAttempts = 0,
                        !.p.client = IF own THEN "open" ELSE @,
                        !.p.clientOf = IF own THEN {} ELSE @,
                        !.p.isReconnecting = FALSE]
    IN connectReturned(startHealthCheck(touch(m1, t), t), a, t)

\* The catch and finally blocks of connect() for the error err.
connectFailed(m, a, err, t) ==
    LET m1 == IF isRateLimitError(err)
              THEN dropSlot([m EXCEPT !.p.health = "rate-limited",
                                      !.g = setRateLimited(m.g, t)])
              ELSE [m EXCEPT !.p.health = "failed"]
    IN connectThrew([m1 EXCEPT !.p.client = "none", !.p.clientOf = {},
                               !.p.isReconnecting = FALSE], a, err, t)

\* waitForReconnect() after its loop.
waitForReconnectEnds(m, c, t) ==
    IF m.p.client # "none" /\ m.p.health = "healthy"
    THEN operate(m, c, t)
    ELSE onAttemptError(m, c, "Reconnection failed", t)

\* executeWithRetry(operation, name) as call c, up to its first await.
executeWithRetry(m, c, t) ==
    LET m1 == [m EXCEPT !.p.operationMutex = Append(@, c),
                        !.p.actor[c] = [NoActor EXCEPT !.pc = "lockWait"]]
    IN IF lockGranted(m1.p, c)
       THEN startAttempt([m1 EXCEPT !.p.actor[c].attempt = 1], c, t)
       ELSE m1

\* forceReconnect() up to its await.
forceReconnect(m, t) ==
    connect([m EXCEPT !.p.reconnectAttempts = 0,
                      !.p.health = "disconnected",
                      !.p.maxReached = FALSE], ForceId, "force", t)

\* executeWithRetry after the operation has succeeded.
operationSucceeded(m, c, t) ==
    settle(touch([m EXCEPT !.p.pendingOperations = @ - 1,
                           !.p.actor[c].lastError = "ok"], t), c, t)

\* The callback of the health check interval, up to its await or its end.
healthCheck(m, t) ==
    LET m1 == [m EXCEPT !.p.checkDue = t + keepAliveInterval \div 2]
    IN IF m.p.pendingOperations > 0 THEN m1
       ELSE IF ~(t - m.p.lastActivity > keepAliveInterval) THEN m1
       ELSE IF m.p.client = "open"
       THEN [m1 EXCEPT !.p.probe = "running", !.p.probeDue = t + healthCheckTimeout]
       ELSE [m1 EXCEPT !.p.health = "disconnected"]

\* The probe of the health check ends: in success, with an error or in its
\* timeout.
probeEnds(m, outcome, t) ==
    IF outcome = "ok"
    THEN touch([m EXCEPT !.p.probe = "none", !.p.probeDue = 0], t)
    ELSE [m EXCEPT !.p.probe = "none", !.p.probeDue = 0, !.p.health = "degraded"]

\* dispose() from the end of client.disconnect() on.
disposeAfterDisconnect(m) ==
    [dropSlot([m EXCEPT !.p.client = "none", !.p.clientOf = {}])
        EXCEPT !.p.health = "disconnected", !.p.disposing = FALSE,
               !.p.disposed = TRUE]

\* dispose() up to its await or its end: client.disconnect() closes the
\* client at once and settles later.
dispose(m) ==
    LET m1 == stopHealthCheck(m)
    IN IF m1.p.client # "none"
       THEN [m1 EXCEPT !.p.client = "closed", !.p.clientOf = {},
                       !.p.disposing = TRUE]
       ELSE [dropSlot(m1) EXCEPT !.p.health = "disconnected", !.p.disposed = TRUE]

(***************************************************************************)
(* The work of the operations of the queue                                 *)
(***************************************************************************)
\* The operation that processFileChange hands to executeWithRetry, for a
\* change of type `type` when the call on the client ends with `outcome`
\* (for a deletion: when deleteFile and then deleteDirectory end with it).
fileOperation(type, outcome) == IF type = "deleted" THEN "ok" ELSE outcome

\* queueFileChange gives a deletion priority 0 and an upload priority 1.
typeOf(q, k) ==
    IF k # 0 /\ q.op[k].priority = 0 THEN "deleted" ELSE "changed"

\* The work of an operation of the queue is processFileChange, which awaits
\* executeWithRetry and rethrows its error: when a call made for an
\* operation settles, executeOperation goes on with its result; a call
\* whose operation the queue has given up (timeout) runs on unattended; an
\* operation the queue has started calls executeWithRetry.
\* The queue after executeOperation has gone on with the result of the call
\* that settles in the step from cp to m.p.
afterCall(m, q, t) ==
    LET fin == {c \in Callers : /\ cp.actor[c].op # 0
                                /\ cp.actor[c].pc # "idle"
                                /\ m.p.actor[c].pc = "idle"}
    IN IF fin = {} THEN q
       ELSE LET c == CHOOSE x \in fin : TRUE
                k == cp.actor[c].op
                res == m.p.actor[c].lastError
            IN finishOperation(
                 [q EXCEPT !.op[k].completed = IF res = "ok" THEN @ + 1 ELSE @,
                           !.op[k].swallowed = m.p.actor[c].swallowed],
                 k, res, t)

\* The calls whose operation the queue q1 no longer executes are unattended.
unattended(m, q1) ==
    [m EXCEPT !.p.actor =
       [a \in Actors |->
          IF @[a].op # 0 /\ q1.op[@[a].op].phase # "executing"
          THEN [@[a] EXCEPT !.op = 0] ELSE @[a]]]

\* The operation that the queue q1 has started calls executeWithRetry.
startCall(m1, q1, t) ==
    LET new == {k \in OpId : /\ q1.op[k].phase = "executing"
                             /\ \A a \in Actors : m1.p.actor[a].op # k}
    IN IF new = {} THEN [m |-> m1, q |-> q1]
       ELSE LET k == CHOOSE x \in new : TRUE
                c == CHOOSE x \in Callers :
                        /\ m1.p.actor[x].pc = "idle"
                        /\ \A d \in Callers : d < x => m1.p.actor[d].pc # "idle"
            IN [m |-> [executeWithRetry(m1, c, t) EXCEPT !.p.actor[c].op = k],
                q |-> q1]

linkCalls(m, q1, t) == startCall(unattended(m, q1), q1, t)

link(m, q, t) ==
    IF ~m.p.keepResults THEN [m |-> m, q |-> q]
    ELSE linkCalls(m, afterCall(m, q, t), t)

\* The step to the queue r.q and the pool and the manager r.m, with the
\* callbacks of the promises the queue settles; w is the watcher and h the
\* history before these callbacks.
StepTo(w, h, r) ==
    /\ oq' = r.q
    /\ fw' = onSettled(w, r.q)
    /\ fh' = FhAfterQueue(h, w, oq, r.q)
    /\ cp' = r.m.p
    /\ gcm' = r.m.g
    /\ UNCHANGED <<now, gh>>

\* A step of the program that takes the queue to q2 and the pool and the
\* manager to m2.
Step(w, q2, h, m2) == StepTo(w, h, link(m2, q2, now))

PoolAndManager == [p |-> cp, g |-> gcm]

(***************************************************************************)
(* Actions of the queue: its callers, its timers and the work it runs      *)
(***************************************************************************)
\* A step of the queue to q2, with the callbacks of the promises it settles;
\* w is the watcher and h the history before these callbacks.
WStep(w, q2, h) == Step(w, q2, h, PoolAndManager)

QStep(q2) == WStep(fw, q2, fh)

QTick ==
    /\ now + QTimeStep <= MaxNowQ
    /\ now' = now + QTimeStep
    /\ UNCHANGED <<gcm, gh, oq, fw, fh, cp>>

\* The next enqueue call.
QEnqueue(prio) ==
    /\ \E k \in OpId :
         /\ oq.op[k].phase = "new"
         /\ \A j \in OpId : j < k => oq.op[j].phase # "new"
         /\ QStep(enqueue(oq, k, prio, now))

\* The work of the executing operation ends: in success or with an error.
QWorkEnds(k, outcome) ==
    /\ oq.op[k].phase = "executing"
    /\ QStep(finishOperation(
                [oq EXCEPT !.op[k].completed = IF outcome = "ok" THEN @ + 1 ELSE @],
                k, outcome, now))

\* The timeout of the executing operation fires: the work keeps running.
QTimeout(k) ==
    /\ oq.op[k].phase = "executing"
    /\ now >= oq.op[k].due
    /\ QStep(finishOperation([oq EXCEPT !.op[k].zombies = @ + 1],
                             k, QueueTimeoutError, now))

\* An execution the queue no longer waits for ends.
QZombieEnds(k, outcome) ==
    /\ oq.op[k].zombies > 0
    /\ QStep([oq EXCEPT !.op[k].zombies = @ - 1,
                        !.op[k].completed = IF outcome = "ok" THEN @ + 1 ELSE @])

\* The backoff timer of a retry fires.
QRetry(k) ==
    /\ oq.op[k].phase = "backoff"
    /\ now >= oq.op[k].due
    /\ QStep(requeue(oq, k, now))

\* The 50 ms wait of the processQueue loop ends.
QPoll ==
    /\ oq.polling
    /\ QStep(processLoop([oq EXCEPT !.polling = FALSE], now))

QPause ==
    /\ ~oq.isPaused
    /\ QStep(pause(oq))

QResume ==
    /\ oq.isPaused
    /\ QStep(resume(oq, now))

QClear ==
    /\ oq.queue # <<>>
    /\ QStep(clear(oq))

\* clear() is called, whatever the queue holds; the history keeps the
\* operations that wait for the timer of a retry.
QClearAny ==
    /\ oq.queue # <<>> \/ \E k \in DOMAIN oq.op : oq.op[k].phase = "backoff"
    /\ WStep(fw, clear(oq), FhAtClear(fh, oq))

(***************************************************************************)
(* Actions of the watcher: file system events, its timers, uploadFile      *)
(***************************************************************************)
WTick ==
    /\ now + WTimeStep <= MaxNowW
    /\ now' = now + WTimeStep
    /\ UNCHANGED <<gcm, gh, oq, fw, fh, cp>>

\* The file system watcher reports a change of type `type` for p.
WEvent(type, p) ==
    LET w2 == handleFileChange(fw, type, p, now)
        timer == Timer(p, [type |-> type, due |-> now + debounceMs])
    IN /\ fw.run = "running"
       /\ fw' = w2
       /\ fh' = IF isIgnored(p) \/ p \in fw.activeUploads
                THEN fh
                ELSE [fh EXCEPT
                        !.dirty = @ \cup {p},
                        !.lastType[p] = type,
                        !.burst[p] = Min(@ + 1, 2),
                        !.guarded = ((@ \cap w2.timers) \ {timer}) \cup
                                    (IF InUploadWindow(fw, p, now)
                                     THEN {timer} ELSE {})]
       /\ UNCHANGED <<now, gcm, gh, oq, cp>>

\* A debounce timer fires.
WDebounceFire(timer) ==
    /\ timer \in fw.timers
    /\ now >= timer.due
    /\ \E k \in OpId : oq.op[k].phase = "new"
    /\ LET p == timer.path
           r == debounceFired(fw, oq, timer, now)
           k == NextOp(oq)
           h1 == [fh EXCEPT !.burst[p] = 0,
                            !.lastType[p] = "none",
                            !.guarded = @ \ {timer}]
           h2 == IF r.q = oq
                 THEN h1
                 ELSE [h1 EXCEPT !.opBurst[k] = fh.burst[p],
                                 !.opLast[k] = fh.lastType[p],
                                 !.opGuarded[k] = timer \in fh.guarded]
       IN WStep(r.w, r.q, h2)

\* uploadFile(p) is called (a command, or a save with uploadOnSave).
WUploadFile(u, p) ==
    /\ fw.upload[u].phase = "none"
    /\ \A j \in UploadId : j < u => fw.upload[j].phase # "none"
    /\ fw' = uploadFile(fw, u, p)
    /\ fh' = IF isIgnored(p)
             THEN fh
             ELSE [fh EXCEPT !.dirty = @ \ {p},
                             !.burst[p] = 0,
                             !.lastType[p] = "none",
                             !.guarded = @ \cap fw'.timers]
    /\ UNCHANGED <<now, gcm, gh, oq, cp>>

\* executeWithRetry of an uploadFile call settles, in success or failure.
WUploadSettle(u) ==
    /\ fw.upload[u].phase = "inflight"
    /\ fw' = uploadSettled(fw, u, now)
    /\ UNCHANGED <<now, gcm, gh, oq, fh, cp>>

\* The 1 s timer of an uploadFile call fires.
WUploadClear(u) ==
    /\ fw.upload[u].phase = "clearing"
    /\ now >= fw.upload[u].due
    /\ fw' = uploadCleared(fw, u)
    /\ UNCHANGED <<now, gcm, gh, oq, fh, cp>>

(***************************************************************************)
(* Actions of the pool: its callers, its timers, the server                *)
(***************************************************************************)
PTick ==
    /\ now + TimeStep <= MaxNowP
    /\ now' = now + TimeStep
    /\ UNCHANGED <<gcm, gh, oq, fw, fh, cp>>

\* The clock of the pool whose calls are all executeWithRetry calls.
PTickSerial ==
    /\ now + TimeStep <= MaxNowS
    /\ now' = now + TimeStep
    /\ UNCHANGED <<gcm, gh, oq, fw, fh, cp>>

\* A step of the pool and the manager to m; the queue and the watcher take
\* part in it only when a call in progress is the work of an operation.
PStep(m) ==
    IF \A c \in Callers : cp.actor[c].op = 0
    THEN /\ cp' = m.p
         /\ gcm' = m.g
         /\ UNCHANGED <<now, gh, oq, fw, fh>>
    ELSE Step(fw, oq, fh, m)

\* executeWithRetry is called: the call takes the lowest number that no
\* call in progress has.
PCall(c) ==
    /\ cp.actor[c].pc = "idle"
    /\ \A d \in Callers : d < c => cp.actor[d].pc # "idle"
    /\ PStep(executeWithRetry([PoolAndManager EXCEPT !.p.disposed = FALSE], c, now))

\* forceReconnect is called.
PForceReconnect ==
    /\ cp.actor[ForceId].pc = "idle"
    /\ PStep(forceReconnect(PoolAndManager, now))

\* The await of acquireSlot() in connect() returns or throws.
PSlotSettled(a) ==
    /\ cp.actor[a].pc = "acquireSlot"
    /\ \/ /\ gcm.st[SlotReq(a)] = "granted"
          /\ PStep(connectAfterSlot(PoolAndManager, a, cp.actor[a].ctx, now))
       \/ /\ gcm.st[SlotReq(a)] = "rejected"
          /\ PStep(connectFailed([PoolAndManager EXCEPT !.g.st[SlotReq(a)] = "none"],
                                 a, "Connection slot timeout", now))

\* client.connect() ends, or its timeout fires.
PConnectEnds(a, outcome) ==
    /\ cp.actor[a].pc = "connecting"
    /\ PStep(IF outcome = "ok"
             THEN connectSucceeded(PoolAndManager, a, now)
             ELSE connectFailed(PoolAndManager, a, outcome, now))

PConnectTimeout(a) ==
    /\ cp.actor[a].pc = "connecting"
    /\ now >= cp.actor[a].due
    /\ PStep(connectFailed(PoolAndManager, a, "Connection timeout", now))

\* The operation ends, or its timeout fires.
POperationEnds(c, outcome) ==
    /\ cp.actor[c].pc = "operating"
    /\ LET result == fileOperation(typeOf(oq, cp.actor[c].op), outcome)
           caught == IF result = outcome THEN "none" ELSE outcome
       IN PStep(IF result = "ok"
                THEN operationSucceeded(
                        [PoolAndManager EXCEPT !.p.actor[c].swallowed = caught],
                        c, now)
                ELSE onAttemptError(PoolAndManager, c, result, now))

POperationTimeout(c) ==
    /\ cp.actor[c].pc = "operating"
    /\ now >= cp.actor[c].due
    /\ PStep(onAttemptError(PoolAndManager, c, "operation timeout", now))

\* The timers of executeWithRetry and reconnect fire.
PRateLimitWaitEnds(c) ==
    /\ cp.actor[c].pc = "rateLimitWait"
    /\ now >= cp.actor[c].due
    /\ PStep(afterRateLimitWait(PoolAndManager, c, now))

PReconnectRateWaitEnds(c) ==
    /\ cp.actor[c].pc = "reconnectRateWait"
    /\ now >= cp.actor[c].due
    /\ PStep(reconnectAfterWait([PoolAndManager EXCEPT !.p.reconnectAttempts = 0],
                                c, now))

PReconnectDelayEnds(c) ==
    /\ cp.actor[c].pc = "reconnectDelay"
    /\ now >= cp.actor[c].due
    /\ PStep(connect(PoolAndManager, c, "reconnect", now))

\* The loop of waitForReconnect ends.
PWaitForReconnectEnds(c) ==
    /\ cp.actor[c].pc = "waitForReconnect"
    /\ ~cp.isReconnecting \/ now >= cp.actor[c].due
    /\ PStep(waitForReconnectEnds(PoolAndManager, c, now))

\* The server or the network closes the connection of the client.
PConnectionLost ==
    /\ cp.client = "open"
    /\ cp' = [cp EXCEPT !.client = "closed"]
    /\ UNCHANGED <<now, gcm, gh, oq, fw, fh>>

\* Another pool of the process takes a free slot, or returns one.
POtherAcquire ==
    /\ gcm.activeConnections < maxGlobalConnections
    /\ ~isRateLimited(gcm, now)
    /\ PStep([p |-> [cp EXCEPT !.others = @ + 1],
              g |-> [gcm EXCEPT !.activeConnections = @ + 1]])

POtherRelease ==
    /\ cp.others > 0
    /\ PStep([p |-> [cp EXCEPT !.others = @ - 1], g |-> releaseSlot(gcm)])

\* The state after construction; FileWatcher constructs its queue with
\* concurrency 3 and config.timeout.
InitOf(concurrencies, timeouts) ==
    /\ now = 0
    /\ gcm = GcmInit
    /\ gh = GhInit
    /\ fw = FwInit
    /\ fh = FhInit
    /\ cp = CpInit
    /\ oq \in {OqNew(c, timeout) : c \in concurrencies, timeout \in timeouts}

InitWith(timeouts) == InitOf({3}, timeouts)

Init == InitWith({6 * retryBackoff})

\* A queue constructed with any of the concurrencies its callers may pass.
InitQueue == InitOf(Concurrencies, Timeouts)


NextGcm ==
    \/ GTick
    \/ \E r \in Req : GAcquire(r)
    \/ \E r \in Req : GWake(r)
    \/ \E r \in Req : GSlotTimeout(r)
    \/ \E r \in Req : GSettle(r)
    \/ GRelease
    \/ GSetRateLimited

SpecGcm == Init /\ [][NextGcm]_vars

NextQueue ==
    \/ QTick
    \/ \E prio \in Priorities : QEnqueue(prio)
    \/ \E k \in OpId, outcome \in {"ok"} \cup WorkErrors : QWorkEnds(k, outcome)
    \/ \E k \in OpId : QTimeout(k)
    \/ \E k \in OpId, outcome \in {"ok", "read ECONNRESET"} : QZombieEnds(k, outcome)
    \/ \E k \in OpId : QRetry(k)
    \/ QPoll
    \/ QPause
    \/ QResume
    \/ QClear

SpecQueue == InitQueue /\ [][NextQueue]_vars

\* The queue whose clear() calls are followed up: nobody calls pause, and
\* the work of an operation ends within its timeout.
NextQueueClear ==
    \/ QTick
    \/ \E prio \in Priorities : QEnqueue(prio)
    \/ \E k \in OpId, outcome \in {"ok"} \cup WorkErrors : QWorkEnds(k, outcome)
    \/ \E k \in OpId : QRetry(k)
    \/ QPoll
    \/ QClearAny

SpecQueueClear == InitQueue /\ [][NextQueueClear]_vars

\* The queue with its scheduling: the clock advances, every execution ends in
\* a result or in the timeout of withTimeout, every timer whose time has
\* come fires, and a paused queue is resumed.
SpecQueueFair ==
    /\ InitQueue
    /\ [][NextQueue]_vars
    /\ WF_vars(QTick)
    /\ \A k \in OpId :
         /\ WF_vars(QTimeout(k) \/ \E outcome \in {"ok"} \cup WorkErrors : QWorkEnds(k, outcome))
         /\ WF_vars(QRetry(k))
    /\ WF_vars(QPoll)
    /\ WF_vars(QResume)

\* The queue near its capacity.  The callers fill the queue with operations
\* of one priority; pause, clear, the clock and the end of the work are
\* followed from MaxFill waiting operations on, and the work of the first
\* MaxEnded operations ends within the time the model follows.
CapId == 1..(maxQueueSize + MaxSpare)

NearCapacity == Len(oq.queue) >= MaxFill

InitCapacity ==
    /\ now = 0
    /\ gcm = GcmInit
    /\ gh = GhInit
    /\ fw = FwInit
    /\ fh = FhInit
    /\ cp = CpInit
    /\ oq = [OqNew(3, 6 * retryBackoff) EXCEPT !.op = [k \in CapId |-> NoOp]]

\* A step of the clock is longer than the wait of the processQueue loop.
CTick ==
    /\ NearCapacity
    /\ ~oq.polling
    /\ now + QTimeStep <= MaxNowC
    /\ now' = now + QTimeStep
    /\ UNCHANGED <<gcm, gh, oq, fw, fh, cp>>

CEnqueue(prio) ==
    /\ \E k \in CapId :
         /\ oq.op[k].phase = "new"
         /\ \A j \in CapId : j < k => oq.op[j].phase # "new"
         /\ k <= MaxFill => prio = 0
         /\ QStep(enqueue(oq, k, prio, now))

CWorkEnds(k, outcome) == NearCapacity /\ QWorkEnds(k, outcome)

CPause == (oq.operationCounter = 0 \/ NearCapacity) /\ QPause

CClear == NearCapacity /\ QClear

NextCapacity ==
    \/ CTick
    \/ \E prio \in Priorities : CEnqueue(prio)
    \/ \E k \in 1..MaxEnded, outcome \in {"ok", "read ECONNRESET"} : CWorkEnds(k, outcome)
    \/ \E k \in 1..MaxEnded : QRetry(k)
    \/ QPoll
    \/ CPause
    \/ QResume
    \/ CClear

SpecCapacity == InitCapacity /\ [][NextCapacity]_vars

\* The queue with three operations whose retries are followed: nobody calls
\* pause or clear, the work of an operation ends within its timeout, and
\* the clock stops before an operation can expire.
MaxOpsR == 3       \* enqueue calls
MaxNowR == 6000    \* the clock of this queue stops here
RetryId == 1..MaxOpsR

InitRetry ==
    /\ now = 0
    /\ gcm = GcmInit
    /\ gh = GhInit
    /\ fw = FwInit
    /\ fh = FhInit
    /\ cp = CpInit
    /\ oq = [OqNew(3, 6 * retryBackoff) EXCEPT !.op = [k \in RetryId |-> NoOp]]

\* A step of the clock is longer than the wait of the processQueue loop, so
\* that wait has ended before the clock moves.
RTick ==
    /\ ~oq.polling
    /\ now + QTimeStep <= MaxNowR
    /\ now' = now + QTimeStep
    /\ UNCHANGED <<gcm, gh, oq, fw, fh, cp>>

REnqueue(prio) ==
    /\ \E k \in RetryId :
         /\ oq.op[k].phase = "new"
         /\ \A j \in RetryId : j < k => oq.op[j].phase # "new"
         /\ QStep(enqueue(oq, k, prio, now))

NextRetry ==
    \/ RTick
    \/ \E prio \in Priorities : REnqueue(prio)
    \/ \E k \in RetryId, outcome \in {"ok", "read ECONNRESET"} : QWorkEnds(k, outcome)
    \/ \E k \in RetryId : QRetry(k)
    \/ QPoll

SpecRetry == InitRetry /\ [][NextRetry]_vars

\* A watcher with config.timeout = 2000.  All automatic operations are for
\* the one watched path, so the queue never holds a second operation while
\* one executes and the 50 ms wait of processQueue does not occur.
InitWatcher == InitWith({2 * retryBackoff})

NextWatcher ==
    \/ WTick
    \/ \E type \in ChangeTypes, p \in Paths : WEvent(type, p)
    \/ \E timer \in fw.timers : WDebounceFire(timer)
    \/ \E u \in UploadId, p \in Paths : WUploadFile(u, p)
    \/ \E u \in UploadId : WUploadSettle(u)
    \/ \E u \in UploadId : WUploadClear(u)
    \/ \E k \in OpId, outcome \in {"ok"} \cup WorkErrors : QWorkEnds(k, outcome)
    \/ \E k \in OpId : QTimeout(k)
    \/ \E k \in OpId, outcome \in {"ok", "read ECONNRESET"} : QZombieEnds(k, outcome)
    \/ \E k \in OpId : QRetry(k)
    \/ QPause
    \/ QResume

SpecWatcher == InitWatcher /\ [][NextWatcher]_vars

\* stop() is called on the running watcher, its await of dispose() returns,
\* and start() is called on the stopped watcher and succeeds.
WStop ==
    /\ fw.run = "running"
    /\ LET r == stop(fw, oq)
       IN WStep(r.w, r.q, [FhAtClear(fh, oq) EXCEPT !.guarded = {}])

WStopEnds ==
    /\ fw.run = "stopping"
    /\ fw' = [fw EXCEPT !.run = "stopped"]
    /\ UNCHANGED <<now, gcm, gh, oq, fh, cp>>

WStart ==
    /\ fw.run = "stopped"
    /\ fw' = [fw EXCEPT !.run = "running"]
    /\ UNCHANGED <<now, gcm, gh, oq, fh, cp>>

\* The watcher that is stopped and started again while it works; nobody
\* calls uploadFile, pause or resume, and the work of an operation ends
\* within its timeout.
NextWatcherStop ==
    \/ WTick
    \/ \E type \in ChangeTypes, p \in Paths : WEvent(type, p)
    \/ \E timer \in fw.timers : WDebounceFire(timer)
    \/ \E k \in OpId, outcome \in {"ok", "read ECONNRESET"} : QWorkEnds(k, outcome)
    \/ \E k \in OpId : QRetry(k)
    \/ QPoll
    \/ WStop
    \/ WStopEnds
    \/ WStart

SpecWatcherStop == InitWatcher /\ [][NextWatcherStop]_vars

NextPool ==
    \/ PTick
    \/ \E c \in Callers : PCall(c)
    \/ PForceReconnect
    \/ \E r \in Req : GWake(r)
    \/ \E r \in Req : GSlotTimeout(r)
    \/ \E a \in Actors : PSlotSettled(a)
    \/ \E a \in Actors, outcome \in {"ok"} \cup ConnectErrors : PConnectEnds(a, outcome)
    \/ \E a \in Actors : PConnectTimeout(a)
    \/ \E c \in Callers, outcome \in {"ok"} \cup OperationErrors : POperationEnds(c, outcome)
    \/ \E c \in Callers : POperationTimeout(c)
    \/ \E c \in Callers : PRateLimitWaitEnds(c)
    \/ \E c \in Callers : PReconnectRateWaitEnds(c)
    \/ \E c \in Callers : PReconnectDelayEnds(c)
    \/ \E c \in Callers : PWaitForReconnectEnds(c)
    \/ PConnectionLost
    \/ POtherAcquire
    \/ POtherRelease

SpecPool == Init /\ [][NextPool]_vars

\* The pool as the watcher uses it when nobody calls forceReconnect: every
\* connect() is called from an executeWithRetry call, under the mutex.  No
\* call then finds isReconnecting set (waitForReconnect) and none enters
\* reconnect() during a cooldown, which a call has waited out by then.
NextPoolSerial ==
    \/ PTickSerial
    \/ \E c \in Callers : PCall(c)
    \/ \E r \in Req : GWake(r)
    \/ \E r \in Req : GSlotTimeout(r)
    \/ \E a \in Actors : PSlotSettled(a)
    \/ \E a \in Actors, outcome \in {"ok"} \cup ConnectErrors : PConnectEnds(a, outcome)
    \/ \E a \in Actors : PConnectTimeout(a)
    \/ \E c \in Callers, outcome \in {"ok"} \cup OperationErrors : POperationEnds(c, outcome)
    \/ \E c \in Callers : POperationTimeout(c)
    \/ \E c \in Callers : PRateLimitWaitEnds(c)
    \/ \E c \in Callers : PReconnectDelayEnds(c)
    \/ PConnectionLost
    \/ POtherAcquire
    \/ POtherRelease

\* The results of the calls are kept.
InitSerial ==
    /\ now = 0
    /\ gcm = GcmInit
    /\ gh = GhInit
    /\ fw = FwInit
    /\ fh = FhInit
    /\ cp = [CpInit EXCEPT !.keepResults = TRUE]
    /\ oq = OqNew(3, 6 * retryBackoff)

SpecPoolSerial == InitSerial /\ [][NextPoolSerial]_vars

\* The watcher's queue and pool at work: the operations of the queue are
\* processFileChange calls, which call executeWithRetry; queue and pool have
\* the timeout of the configuration (30 s by default).  No other pool holds
\* a slot and nobody calls forceReconnect, pause or clear.
TTick ==
    /\ now + TimeStep <= MaxNowT
    /\ now' = now + TimeStep
    /\ UNCHANGED <<gcm, gh, oq, fw, fh, cp>>

InitTransfer ==
    /\ now = 0
    /\ gcm = GcmInit
    /\ gh = GhInit
    /\ fw = FwInit
    /\ fh = FhInit
    /\ cp = [CpInit EXCEPT !.keepResults = TRUE]
    /\ oq = OqNew(3, operationTimeout)

NextTransfer ==
    \/ TTick
    \/ \E prio \in Priorities : QEnqueue(prio)
    \/ \E k \in OpId : QTimeout(k)
    \/ \E k \in OpId : QRetry(k)
    \/ QPoll
    \/ \E r \in Req : GWake(r)
    \/ \E a \in Actors : PSlotSettled(a)
    \/ \E a \in Actors, outcome \in {"ok"} \cup ConnectErrors : PConnectEnds(a, outcome)
    \/ \E a \in Actors : PConnectTimeout(a)
    \/ \E c \in Callers, outcome \in {"ok"} \cup OperationErrors : POperationEnds(c, outcome)
    \/ \E c \in Callers : POperationTimeout(c)
    \/ \E c \in Callers : PRateLimitWaitEnds(c)
    \/ \E c \in Callers : PReconnectDelayEnds(c)
    \/ PConnectionLost

SpecTransfer == InitTransfer /\ [][NextTransfer]_vars

\* The scheduling of the pool: the clock advances, every timer whose time
\* has come fires, every client.connect() and every operation ends in a
\* result or in the timeout of withTimeout, and the continuation of a
\* settled acquireSlot() runs.
PoolFairness ==
    /\ \A r \in Req : WF_vars(GWake(r)) /\ WF_vars(GSlotTimeout(r))
    /\ \A a \in Actors :
         /\ WF_vars(PSlotSettled(a))
         /\ WF_vars(PConnectTimeout(a)
                      \/ \E outcome \in {"ok"} \cup ConnectErrors : PConnectEnds(a, outcome))
    /\ \A c \in Callers :
         /\ WF_vars(POperationTimeout(c)
                      \/ \E outcome \in {"ok"} \cup OperationErrors : POperationEnds(c, outcome))
         /\ WF_vars(PRateLimitWaitEnds(c))
         /\ WF_vars(PReconnectDelayEnds(c))

SpecPoolSerialFair ==
    InitSerial /\ [][NextPoolSerial]_vars /\ WF_vars(PTickSerial) /\ PoolFairness

(***************************************************************************)
(* The pool with its health check and dispose(): one caller of             *)
(* executeWithRetry, no other pool                                         *)
(***************************************************************************)
MaxNowL == 120000  \* the clock of the pool with its health check stops here
ProbeErrors == {"read ECONNRESET"}

PTickLife ==
    /\ now + TimeStep <= MaxNowL
    /\ now' = now + TimeStep
    /\ UNCHANGED <<gcm, gh, oq, fw, fh, cp>>

\* The interval of the health check fires; the probe of the interval before,
\* which is given 5 s, has ended by then.
PHealthCheck ==
    /\ cp.healthCheckInterval = "on"
    /\ now >= cp.checkDue
    /\ cp.probe = "none"
    /\ PStep(healthCheck(PoolAndManager, now))

\* client.exists() of the health check ends, or its timeout fires.
PProbeEnds(outcome) ==
    /\ cp.probe = "running"
    /\ PStep(probeEnds(PoolAndManager, outcome, now))

PProbeTimeout ==
    /\ cp.probe = "running"
    /\ now >= cp.probeDue
    /\ PStep(probeEnds(PoolAndManager, "Health check timeout", now))

\* dispose() is called, and its await of client.disconnect() returns.
PDispose ==
    /\ ~cp.disposing
    /\ PStep(dispose(PoolAndManager))

PDisposeEnds ==
    /\ cp.disposing
    /\ PStep(disposeAfterDisconnect(PoolAndManager))

NextPoolLife ==
    \/ PTickLife
    \/ PCall(1)
    \/ \E r \in Req : GWake(r)
    \/ \E a \in Actors : PSlotSettled(a)
    \/ \E a \in Actors, outcome \in {"ok"} \cup ConnectErrors : PConnectEnds(a, outcome)
    \/ \E a \in Actors : PConnectTimeout(a)
    \/ \E c \in Callers, outcome \in {"ok"} \cup OperationErrors : POperationEnds(c, outcome)
    \/ \E c \in Callers : POperationTimeout(c)
    \/ \E c \in Callers : PRateLimitWaitEnds(c)
    \/ \E c \in Callers : PReconnectDelayEnds(c)
    \/ PConnectionLost
    \/ PHealthCheck
    \/ \E outcome \in {"ok"} \cup ProbeErrors : PProbeEnds(outcome)
    \/ PProbeTimeout
    \/ PDispose
    \/ PDisposeEnds

InitLife ==
    /\ now = 0
    /\ gcm = GcmInit
    /\ gh = GhInit
    /\ fw = FwInit
    /\ fh = FhInit
    /\ cp = [CpInit EXCEPT !.monitored = TRUE]
    /\ oq = OqNew(3, 6 * retryBackoff)

SpecPoolLife == InitLife /\ [][NextPoolLife]_vars

(***************************************************************************)
(* Properties of the admission controller                                  *)
(***************************************************************************)

\* C1: in every reachable state, under any interleaving of acquireSlot and
\* releaseSlot calls, 0 <= activeConnections <= maxGlobalConnections (2); a
\* releaseSlot with nothing held leaves the count at 0.
C1_SlotBound ==
    /\ gcm.activeConnections >= 0
    /\ gcm.activeConnections <= maxGlobalConnections

\* Both slots are held, a request waits, and releaseSlot has been called with
\* nothing held.
C1_Witness ==
    /\ gh.releasedAtZero
    /\ gcm.activeConnections = maxGlobalConnections
    /\ gcm.connectionQueue # <<>>

\* C3 as stated: of two calls that are both granted, the one called first is
\* granted first (no granted call has been overtaken by a later call).
C3_CallOrderFifo ==
    \A r \in Req : gcm.st[r] = "granted" => ~gh.overtaken[r]

\* C3 as amended: the requests in the wait list are granted in the order they
\* entered it, and no request is granted at once while another one waits in
\* the list.
C3_WaitListFifo ==
    [][\A r \in Req :
         (gcm.st[r] # "granted" /\ gcm'.st[r] = "granted") =>
             IF gcm.st[r] = "queued"
             THEN gh.waitOrder # <<>> /\ Head(gh.waitOrder) = r
             ELSE gh.waitOrder = <<>>]_vars

\* A request has been granted from the wait list while another one still waits.
C3_Witness ==
    \E r \in gh.fromQueue : \E x \in Req :
        /\ gcm.st[r] = "granted"
        /\ gcm.st[x] = "queued"

\* C4: an acquireSlot call that starts during a cooldown does not resolve
\* before that cooldown (rateLimitedUntil as it stood at the call) has expired;
\* a call that starts with no cooldown active and a free slot resolves in the
\* same step.
C4_Cooldown ==
    /\ [](\A r \in Req : gcm.st[r] = "granted" => now >= gh.cooldownAtCall[r])
    /\ [][\A r \in Req :
            (/\ gcm.st[r] = "none" /\ gcm'.st[r] # "none"
             /\ now >= gcm.rateLimitedUntil
             /\ gcm.activeConnections < maxGlobalConnections)
            => gcm'.st[r] = "granted"]_vars

\* A call made during a cooldown has slept and has been granted.
C4_Witness ==
    \E r \in Req : gcm.st[r] = "granted" /\ gh.cooldownAtCall[r] > 0


(***************************************************************************)
(* Properties of the operation queue                                       *)
(***************************************************************************)

\* The executions of the work of operation k that have not ended.
Unfinished(k) ==
    oq.op[k].zombies + (IF oq.op[k].phase = "executing" THEN 1 ELSE 0)

\* C6: the queue never starts the work of an operation while an earlier
\* execution of it (one the queue timed out) is still running, and at most one
\* execution of an operation ends in success.
C6_NoDoubleExecution ==
    \A k \in OpId : Unfinished(k) <= 1 /\ oq.op[k].completed <= 1

\* The queue has timed an operation out while its work is still running.
C6_Witness ==
    \E k \in OpId :
        /\ oq.op[k].handle = QueueTimeoutError
        /\ oq.op[k].zombies = 1

\* C7 as stated: the work of an operation is executed at most maxRetries
\* times (3 by default), never a 4th time.
C7_AtMostMaxRetries ==
    \A k \in OpId : oq.op[k].execs <= oq.op[k].maxRetries

\* C7 as amended: the work is executed at most maxRetries + 1 times (the
\* first execution and maxRetries retries), and the handle rejects with a
\* retryable error of the work only after execution maxRetries + 1.
C7_RetryCeiling ==
    /\ [](\A k \in OpId : oq.op[k].execs <= oq.op[k].maxRetries + 1)
    /\ [][\A k \in OpId :
            (oq.op[k].handle = "pending" /\ isRetryableError(oq'.op[k].handle))
            => oq.op[k].execs = oq.op[k].maxRetries + 1]_vars

\* An operation has been rejected with the retryable error of its work.
C7_Witness ==
    \E k \in OpId : oq.op[k].handle = "read ECONNRESET"

Before(a, b) ==
    \/ oq.op[a].priority > oq.op[b].priority
    \/ oq.op[a].priority = oq.op[b].priority /\ a < b

TimersOf(p) == {timer \in fw.timers : timer.path = p}
OpsOf(p) == {k \in OpId : fw.opKey[k] = p}

\* C5: no local change is lost.  Whenever a change event of a watched path
\* has not been followed by the start of a transfer of the path, a transfer
\* of the path is still to come: the debounce timer of the path is set, or an
\* operation for the path waits in the queue or for its retry.  In particular
\* an event dropped because the path is pending is picked up by a later
\* transfer.
C5_NoChangeLost ==
    \A p \in WatchedPaths :
        p \in fh.dirty =>
            \/ TimersOf(p) # {}
            \/ \E k \in OpsOf(p) : oq.op[k].phase \in {"queued", "backoff"}

\* C9: change events of one path that each arrive before the debounce timer
\* of the previous one has fired leave one timer, that of the last event;
\* when it fires with the path neither pending nor under manual upload,
\* exactly one operation is enqueued, and it carries the type of the last
\* event.  The path has at most one unsettled automatic operation.
DebounceFires(p) ==
    /\ fh.burst[p] > 0
    /\ fh'.burst[p] = 0
    /\ fw'.upload = fw.upload

C9_OneOperationLastType ==
    /\ [](\A p \in WatchedPaths :
            /\ Cardinality(TimersOf(p)) <= 1
            /\ \A timer \in TimersOf(p) :
                 /\ timer.type = fh.lastType[p]
                 /\ Timer(p, fw.debounceTimers[p]) = timer
            /\ Cardinality(OpsOf(p)) <= 1
            /\ \A k \in OpsOf(p) : fw.opType[k] = fh.opLast[k])
    /\ [][\A p \in WatchedPaths :
            (/\ DebounceFires(p)
             /\ p \notin fw.pendingOperations
             /\ p \notin fw.activeUploads)
            => \E k \in OpId :
                 /\ oq.op[k].phase = "new"
                 /\ oq'.op[k].phase # "new"
                 /\ fw'.opKey[k] = p
                 /\ fw'.opType[k] = fh.lastType[p]
                 /\ TimersOf(p)' = {}
                 /\ \A j \in OpId \ {k} :
                      /\ oq'.op[j].phase = "new" <=> oq.op[j].phase = "new"
                      /\ fw'.opKey[j] = fw.opKey[j]]_vars

\* An operation was enqueued for a burst of two or more events.
C9_Witness ==
    \E k \in OpId :
        /\ fw.opKey[k] \in WatchedPaths
        /\ fh.opBurst[k] >= 2
        /\ fw.opType[k] = "deleted"

\* C10: no change event of p that arrives between the start of an
\* uploadFile(p) call and 1 s after its end results in an enqueued
\* automatic operation for p.
C10_NoOperationFromUploadWindow ==
    \A k \in OpId : ~fh.opGuarded[k]

(***************************************************************************)
(* Properties of the pool                                                  *)
(***************************************************************************)
\* The execution window of call c: from the return of acquireOperationLock
\* to the settling of executeWithRetry.
InWindow(c) == cp.actor[c].pc \notin {"idle", "lockWait"}

\* C2: the execution windows of two executeWithRetry calls on the pool never
\* overlap, whatever attempts, waits and reconnects a call goes through; the
\* call in its window is the first of the chain of the mutex, and the calls
\* behind it wait for the lock.
C2_WindowsNeverOverlap ==
    /\ \A c1, c2 \in Callers : InWindow(c1) /\ InWindow(c2) => c1 = c2
    /\ \A c \in Callers :
         /\ InWindow(c) => lockGranted(cp, c)
         /\ cp.actor[c].pc = "lockWait" =>
              /\ c \in SeqSet(cp.operationMutex)
              /\ \E d \in Callers : InWindow(d)

\* A call is in the connect of a reconnect, in its second or third attempt,
\* while another call waits for the lock.
C2_Witness ==
    \E c1, c2 \in Callers :
        /\ cp.actor[c1].pc = "connecting"
        /\ cp.actor[c1].ctx = "reconnect"
        /\ cp.actor[c2].pc = "lockWait"

(***************************************************************************)
(* Further properties of the queue                                         *)
(***************************************************************************)
ExpiredError == "Operation expired in queue"
Waited(k) == now - oq.op[k].addedAt

\* C11: an operation that has waited in the queue for more than twice its
\* timeout is never started; when it is taken from the head of the queue,
\* not having been started before, its handle is rejected with 'Operation
\* expired in queue' and its work is not executed.
C11_ExpiredNeverExecuted ==
    [][\A k \in OpId :
         (/\ oq.op[k].phase = "queued"
          /\ Waited(k) > 2 * oq.op[k].timeout)
         => /\ oq'.op[k].phase # "executing"
            /\ oq'.op[k].execs <= oq.op[k].execs
            /\ oq'.op[k].phase # "queued"
               => /\ oq'.op[k].phase = "done"
                  /\ oq'.op[k].handle \in {ExpiredError, "Queue cleared"}
                  /\ oq'.op[k].zombies = oq.op[k].zombies]_vars

\* An operation that was never started has been rejected as expired.
C11_Witness ==
    \E k \in OpId :
        /\ oq.op[k].handle = ExpiredError
        /\ oq.op[k].phase = "done"
        /\ oq.op[k].execs = 0

\* The operation is accepted and its promise is not settled.
Accepted(k) == oq.op[k].phase \in {"queued", "executing", "backoff"}

\* The retry timer of the operation is due after the last tick of the clock.
BeyondClock(k) ==
    /\ oq.op[k].phase = "backoff"
    /\ oq.op[k].due > MaxNowQ

\* C12: the promise of every accepted operation is settled exactly once (it
\* is pending while the queue holds the operation, every resolve or reject
\* is on a pending promise, and a settled promise keeps its value), and it is
\* settled eventually when the queue is not left paused forever.
C12_SettledOnceEventually ==
    /\ [][\A k \in OpId :
            /\ Accepted(k) => oq.op[k].handle = "pending"
            /\ oq.op[k].handle # "pending" => oq'.op[k].handle = oq.op[k].handle
            /\ oq'.op[k].phase = "done" => oq'.op[k].handle # "pending"
            /\ Len(oq.queue) = Cardinality(SeqSet(oq.queue))
            /\ \A j \in SeqSet(oq.queue) : oq.op[j].phase = "queued"]_vars
    /\ \A k \in OpId :
         Accepted(k) ~> (oq.op[k].handle # "pending" \/ BeyondClock(k))

\* One operation is rejected with a retryable error, that is after its last
\* retry, and another one is resolved.
C12_Witness ==
    \E k, j \in OpId :
        /\ oq.op[k].phase = "done"
        /\ oq.op[k].handle = "read ECONNRESET"
        /\ oq.op[j].phase = "done"
        /\ oq.op[j].handle = "resolved"

(***************************************************************************)
(* Further properties of the connection pool                               *)
(***************************************************************************)
\* The slots the pool can still return: the one its hasSlot flag stands for,
\* and the grants its connect() calls have not yet taken notice of.
SlotsOfPool ==
    (IF cp.hasSlot THEN 1 ELSE 0)
        + Cardinality({r \in Req : gcm.st[r] = "granted"})

\* C13: every slot granted to the pool is returned by a releaseSlot of the
\* pool: the slots counted by the manager are those of the other pools and
\* those the pool still holds a claim to (hasSlot, released by connect, by
\* getConnection or at the latest by dispose).
C13_NoSlotLeaked == gcm.activeConnections <= cp.others + SlotsOfPool

\* The coroutines that are inside connect(): waiting for a slot or for
\* client.connect().
Connecting == {a \in Actors : cp.actor[a].pc \in {"acquireSlot", "connecting"}}

\* C16: the pool never has two connect() calls in progress at once.
C16_OneConnectAtATime == Cardinality(Connecting) <= 1

\* executeWithRetry is called as call c in this step while no other call
\* holds the lock, so that its getConnection sees the pool as it is.
CallEnters(c) ==
    /\ cp.actor[c].pc = "idle"
    /\ cp.operationMutex = <<>>
    /\ cp'.actor[c].attempt = 1

\* The connect() that getConnection called for c returns its client in this
\* step.
GetConnectReturns(c) ==
    /\ cp.actor[c].pc = "connecting"
    /\ cp.actor[c].ctx = "get"
    /\ cp'.actor[c].pc = "operating"

C15_FailedUntilForced ==
    cp.maxReached => cp.health = "failed" /\ Connecting = {}

\* A timer that a coroutine of the pool waits for is due after the last tick
\* of the clock, or a request waits for a slot of another pool until then.
PoolBeyondClock ==
    \/ \E a \in Actors :
         /\ cp.actor[a].pc \in {"rateLimitWait", "reconnectRateWait",
                                "reconnectDelay", "waitForReconnect"}
         /\ cp.actor[a].due > MaxNowS
    \/ \E r \in Req :
         \/ gcm.st[r] = "sleep" /\ gcm.wake[r] > MaxNowS
         \/ gcm.st[r] = "queued" /\ gcm.expire[r] > MaxNowS

Settles(c) == InWindow(c) /\ cp'.actor[c].pc = "idle"

\* The errors with which the await the call is suspended at can end.
ErrorsAt(c) ==
    CASE cp.actor[c].pc = "connecting" -> ConnectErrors \cup {"Connection timeout"}
      [] cp.actor[c].pc = "acquireSlot" -> {"Connection slot timeout"}
      [] cp.actor[c].pc = "operating" -> OperationErrors \cup {"operation timeout"}
      [] cp.actor[c].pc = "waitForReconnect" -> {"Reconnection failed"}
      [] OTHER -> {}

\* C18: a call of executeWithRetry makes at most 3 attempts; a call that
\* rejects with a connection-class error does so after its third attempt,
\* with the error of that attempt.
C18_ThreeAttempts ==
    [][\A c \in Callers :
         /\ cp.actor[c].attempt <= maxRetries
         /\ (Settles(c) /\ isConnectionError(cp'.actor[c].lastError))
            => /\ cp.actor[c].attempt = maxRetries
               /\ cp'.actor[c].lastError \in ErrorsAt(c)]_vars

\* A call has been rejected with the error of its operation although its
\* first attempts failed in connect(): a reconnect delay has passed.
C18_Witness ==
    \E c \in Callers :
        /\ cp.actor[c].pc = "idle"
        /\ cp.actor[c].lastError = "read ECONNRESET"
        /\ cp.reconnectAttempts = 0
        /\ cp.health = "healthy"
        /\ now >= TimeStep

(***************************************************************************)
(* Properties of the queue at work through the pool                        *)
(***************************************************************************)
\* An error that is neither connection-class nor a rate limit.
NonConnection(err) ==
    /\ err \notin {"none", "ok"}
    /\ ~isConnectionError(err)
    /\ ~isRateLimitError(err)

\* C19: an operation that fails with a non-connection error is not executed
\* again: a call of executeWithRetry that has met such an error is not in
\* progress any more, it rethrows the error of the operation it has just run
\* without calling reconnect, and the queue rejects the promise of the
\* operation with this error and does not queue it again.
C19_NonConnectionErrorOnce ==
    [][\A c \in Callers :
         /\ InWindow(c) => ~NonConnection(cp.actor[c].lastError)
         /\ (Settles(c) /\ NonConnection(cp'.actor[c].lastError))
            => /\ cp.actor[c].pc = "operating"
               /\ cp'.actor[c].lastError \in OperationErrors
               /\ cp'.reconnectAttempts = cp.reconnectAttempts
               /\ LET k == cp.actor[c].op
                  IN k # 0 => /\ oq'.op[k].phase = "done"
                              /\ oq'.op[k].handle = cp'.actor[c].lastError
                              /\ oq.op[k].handle = "pending"]_vars

\* The promise of an upload is rejected with the permission error of the
\* server, its call of executeWithRetry having ended with that error.
C19_Witness ==
    \E k \in OpId, c \in Callers :
        /\ oq.op[k].phase = "done"
        /\ oq.op[k].handle = "550 Permission denied"
        /\ cp.actor[c].pc = "idle"
        /\ cp.actor[c].lastError = "550 Permission denied"

\* C20: a deletion whose deleteFile and deleteDirectory both fail with a
\* connection-class error is not settled as a success (the error reaches
\* executeWithRetry, which reconnects and tries again).
C20_DeleteErrorNotSuccess ==
    \A k \in OpId :
        oq.op[k].handle = "resolved" => ~isConnectionError(oq.op[k].swallowed)

(***************************************************************************)
(* Properties of clear, pause, the concurrency and the capacity of the     *)
(* queue                                                                   *)
(***************************************************************************)
ClearedError == "Queue cleared"

\* C21: clear() rejects with 'Queue cleared' every operation that is in the
\* queue at that moment and has not run since, leaves the queue empty, and
\* leaves the executing operation as it is: still executing, its handle
\* pending, its timeout pending, counted as active.
C21_ClearRejectsWaiting ==
    [][QClear =>
         /\ \A k \in SeqSet(oq.queue) :
               /\ oq'.op[k].handle = ClearedError
               /\ oq'.op[k].phase = "done"
         /\ oq'.queue = <<>>
         /\ oq'.activeOperations = oq.activeOperations
         /\ \A k \in OpId :
               oq.op[k].phase = "executing" => oq'.op[k] = oq.op[k]]_vars

\* Operation 2 was rejected by clear() while operation 1 was in its first
\* execution, which still runs.
C21_Witness ==
    /\ oq.op[2].handle = ClearedError
    /\ oq.op[1].phase = "executing"
    /\ oq.op[1].execs = 1
    /\ oq.op[1].retries = 0
    /\ oq.op[1].handle = "pending"
    /\ oq.activeOperations = 1

\* Operation k starts executing in this step.
Starts(k) == oq'.op[k].execs > oq.op[k].execs

\* C22 as stated: no operation starts while the queue is paused, and every
\* operation in the queue eventually starts once the queue is resumed
\* (unless clear() removes it).
C22_EveryPendingStarts ==
    /\ [][\A k \in OpId : Starts(k) => ~oq'.isPaused]_vars
    /\ \A k \in OpId :
         (oq.op[k].phase = "queued")
            ~> (oq.op[k].phase = "executing" \/ oq.op[k].handle = ClearedError)

\* C22 as amended: no operation starts while the queue is paused; pause()
\* leaves the executing operation as it is, and its work ends in the paused
\* queue as in a running one; once the queue is resumed, every operation
\* in the queue eventually starts or is rejected as expired (or removed by
\* clear()).
C22_PauseHolds ==
    /\ [][\A k \in OpId : Starts(k) => ~oq'.isPaused]_vars
    /\ [][QPause =>
            /\ oq'.activeOperations = oq.activeOperations
            /\ oq'.queue = oq.queue
            /\ \A k \in OpId : oq'.op[k] = oq.op[k]]_vars
    /\ [][\A k \in OpId :
            (oq.isPaused /\ QWorkEnds(k, "ok"))
            => /\ oq'.op[k].handle = "resolved"
               /\ oq'.activeOperations = oq.activeOperations - 1]_vars
    /\ \A k \in OpId :
         (oq.op[k].phase = "executing") ~> (oq.op[k].phase # "executing")
    /\ \A k \in OpId :
         (oq.op[k].phase = "queued")
            ~> (\/ oq.op[k].phase = "executing"
                \/ oq.op[k].handle \in {ExpiredError, ClearedError})

\* The queue is paused while one operation executes and another one, whose
\* backoff has elapsed, waits at the front of the queue for its retry.
C22_Witness ==
    /\ oq.isPaused
    /\ \E k, j \in OpId :
         /\ oq.op[k].phase = "executing"
         /\ oq.op[j].phase = "queued"
         /\ oq.op[j].retries > 0
         /\ Head(oq.queue) = j

\* The operations that executeOperation is awaiting.
Executing == {k \in OpId : oq.op[k].phase = "executing"}

\* C23: whatever concurrency (1 or more) the queue was constructed with, the
\* number of operations it is executing is 0 or 1, and it is the number
\* getStatus() reports as active.
C23_OneAtATime ==
    /\ oq.activeOperations \in {0, 1}
    /\ Cardinality(Executing) = oq.activeOperations

\* An operation waits in the running queue for the end of the one that
\* executes.
C23_Witness ==
    /\ ~oq.isPaused
    /\ oq.activeOperations = 1
    /\ \E k \in OpId : oq.op[k].phase = "queued" /\ ~isExpired(oq.op[k], now)

FullError == "Operation queue is full"

\* C24: an enqueue call that finds maxQueueSize (100) operations in the
\* queue rejects its handle with 'Operation queue is full' and changes
\* nothing else, and the rejected work is never executed; a call that finds
\* fewer is accepted.
C24_FullRejected ==
    /\ [][\A k \in CapId :
            (oq.op[k].phase = "new" /\ oq'.op[k].phase # "new")
            => IF Len(oq.queue) >= maxQueueSize
               THEN /\ oq'.op[k].handle = FullError
                    /\ oq'.op[k].phase = "done"
                    /\ oq'.op[k].execs = 0
                    /\ oq'.queue = oq.queue
                    /\ oq'.activeOperations = oq.activeOperations
                    /\ \A j \in CapId \ {k} : oq'.op[j] = oq.op[j]
               ELSE /\ oq'.op[k].handle = "pending"
                    /\ \/ oq'.op[k].phase = "executing"
                       \/ k \in SeqSet(oq'.queue)]_vars
    /\ [][\A k \in CapId :
            oq.op[k].handle = FullError => oq'.op[k] = oq.op[k]]_vars

\* An enqueue call was rejected by the running queue, which holds 100
\* operations behind the one that executes.
C24_Witness ==
    /\ ~oq.isPaused
    /\ oq.activeOperations = 1
    /\ Len(oq.queue) = maxQueueSize
    /\ \E k \in CapId : oq.op[k].handle = FullError

(***************************************************************************)
(* Properties of dispose(), the health and the health check of the pool    *)
(***************************************************************************)
\* A step in which a dispose() call returns.
DisposeReturns == (PDispose /\ cp.client = "none") \/ PDisposeEnds

Disposed(p) ==
    /\ p.client = "none"
    /\ ~p.hasSlot
    /\ p.healthCheckInterval = "off"
    /\ p.health = "disconnected"

poolIsConnected(p) == p.client # "none" /\ p.health = "healthy"

\* C26: whenever the health of the pool is disconnected, failed or
\* rate-limited, the pool holds no client object and isConnected() is false.
C26_NoClientUnlessUsable ==
    cp.health \in {"disconnected", "failed", "rate-limited"}
        => cp.client = "none" /\ ~poolIsConnected(cp)

(***************************************************************************)
(* Properties of the debounce timers                                       *)
(***************************************************************************)
\* C27: at every instant a path has at most one active debounce timer, the
\* one the Map holds for it; after a change event that is not skipped the
\* only timer of the path is the new one, whatever the type of the event
\* and the type of the timer that ran before.
C27_OneTimerPerPath ==
    /\ [](\A p \in Paths :
            /\ Cardinality(TimersOf(p)) <= 1
            /\ TimersOf(p) \subseteq {Timer(p, fw.debounceTimers[p])})
    /\ [][\A type \in ChangeTypes, p \in Paths :
            (/\ WEvent(type, p)
             /\ ~isIgnored(p)
             /\ p \notin fw.activeUploads)
            => TimersOf(p)' = {Timer(p, [type |-> type, due |-> now + debounceMs])}]_vars

\* A second event has replaced the timer of a path whose operation is
\* pending, and the timer left is one for a deletion.
C27_Witness ==
    \E p \in WatchedPaths :
        /\ fh.burst[p] = 2
        /\ p \in fw.pendingOperations
        /\ fw.debounceTimers[p].type = "deleted"
        /\ TimersOf(p) = {Timer(p, fw.debounceTimers[p])}

(***************************************************************************)
(* Properties of the wait list and the cooldown of the admission           *)
(* controller                                                              *)
(***************************************************************************)
\* C30: a request whose 120 s timer has fired is no longer in the wait list:
\* every entry of the list belongs to a request that still waits, a rejected
\* request is never granted, and whenever releaseSlot takes an entry from
\* the list, a waiting request is granted by it.
C30_TimedOutRemoved ==
    /\ [](\A i \in DOMAIN gcm.connectionQueue :
            /\ gcm.connectionQueue[i] \in Req
            /\ gcm.st[gcm.connectionQueue[i]] = "queued")
    /\ [][/\ \A r \in Req : gcm.st[r] = "rejected" => gcm'.st[r] # "granted"
          /\ Len(gcm'.connectionQueue) < Len(gcm.connectionQueue)
                => \E r \in Req : gcm.st[r] = "queued" /\ gcm'.st[r] = "granted"]_vars

\* releaseSlot has counted a slot for an entry whose request had timed
\* out, while another request still waits.
StaleGrant ==
    /\ GRelease
    /\ gcm.connectionQueue # <<>>
    /\ Head(gcm.connectionQueue) = Stale
    /\ gcm'.activeConnections = gcm.activeConnections
    /\ \E r \in Req : gcm'.st[r] = "queued"

\* C28: no acquireSlot() call resolves while a cooldown is active, be it a
\* new call, a request that waits in the wait list when releaseSlot() is
\* called, or a call that wakes from the wait for an earlier cooldown.
C28_NoGrantInCooldown ==
    [][\A r \in Req :
          gcm.st[r] # "granted" /\ gcm'.st[r] = "granted"
              => ~isRateLimited(gcm, now)]_vars

\* releaseSlot grants a waiting request during a cooldown.
GrantFromListInCooldown ==
    /\ GRelease
    /\ isRateLimited(gcm, now)
    /\ \E r \in Req : gcm.st[r] = "queued" /\ gcm'.st[r] = "granted"

\* A call wakes from its wait during a cooldown that was extended and is
\* granted.
GrantAfterExtendedCooldown ==
    \E r \in Req :
        /\ GWake(r)
        /\ isRateLimited(gcm, now)
        /\ gcm'.st[r] = "granted"

(***************************************************************************)
(* Properties of the health check                                          *)
(***************************************************************************)
\* The calls whose operation runs on the client.
Operating == {c \in Callers : cp.actor[c].pc = "operating"}

\* The probe starts only when no executeWithRetry call is in progress.
ProbeStartsIdle ==
    [][cp.probe = "none" /\ cp'.probe = "running"
          => Operating = {} /\ cp.pendingOperations = 0]_vars

\* C29: the probe of the health check and an operation of executeWithRetry
\* never run on the client at the same time: no probe starts while an
\* operation is in flight, and no operation starts while a probe is
\* outstanding.
C29_ProbeAlone ==
    /\ ProbeStartsIdle
    /\ [](cp.probe = "running" => Operating = {})

(***************************************************************************)
(* Properties of the slot accounting                                       *)
(***************************************************************************)
\* C31: the count of held slots is the number of pools whose hasSlot flag
\* is set (the other pools, and this pool with its flag or with a grant its
\* connect() is about to record in the flag), and the pool stands for at
\* most one slot.
C31_SlotsMatchFlags ==
    /\ gcm.activeConnections = cp.others + SlotsOfPool
    /\ SlotsOfPool <= 1

(***************************************************************************)
(* Properties of the marks of the watcher                                  *)
(***************************************************************************)
\* C32: while an uploadFile(p) call is in flight, p is in activeUploads,
\* also when the clearing timer of an earlier uploadFile(p) call fires.
C32_MarkedWhileInFlight ==
    \A u \in UploadId :
        fw.upload[u].phase = "inflight" => fw.upload[u].path \in fw.activeUploads

\* The automatic operations of p whose promise is not settled, and those of
\* them that wait in the queue or execute.
UnsettledOf(p) == {k \in OpId : fw.opKey[k] = p}
InQueueOf(p) == {k \in UnsettledOf(p) : oq.op[k].phase \in {"queued", "executing"}}

\* C33: at any time at most one automatic operation of a path waits in the
\* queue or executes, and the path has its pending mark exactly while an
\* automatic operation of it is unsettled.
C33_OnePendingPerPath ==
    \A p \in Paths :
        /\ Cardinality(InQueueOf(p)) <= 1
        /\ p \in fw.pendingOperations <=> UnsettledOf(p) # {}

(***************************************************************************)
(* Properties of the retries of the queue                                  *)
(***************************************************************************)
\* C34: after clear() no operation enqueued before it starts executing: the
\* operations it rejected never start, and an operation that waited for
\* the timer of its retry when clear() was called neither goes back into
\* the queue nor executes again.
C34_NothingRunsAfterClear ==
    [][\A k \in DOMAIN oq.op :
          (oq.op[k].handle = ClearedError \/ k \in fh.retryAtClear)
              => /\ oq'.op[k].execs = oq.op[k].execs
                 /\ oq'.op[k].phase # "queued"]_vars

(***************************************************************************)
(* Properties of the disposed pool                                         *)
(***************************************************************************)
\* C35: once dispose() has returned, and for as long as executeWithRetry is
\* not called anew, the pool holds no global slot, no client and no running
\* health-check timer, whatever calls were in progress when dispose() was
\* called.
C35_StaysDisposed ==
    cp.disposed =>
        /\ ~cp.hasSlot
        /\ cp.client = "none"
        /\ cp.healthCheckInterval = "off"
        /\ \A r \in Req : gcm.st[r] # "granted"

(***************************************************************************)
(* Further properties of the retries of the queue                          *)
(***************************************************************************)
\* C36: only an operation that has never started expires: an operation
\* rejected with 'Operation expired in queue' has not been executed, and an
\* operation that was put back for a retry ends resolved or with the error
\* of its work.
C36_ExpiryOnlyBeforeStart ==
    \A k \in DOMAIN oq.op :
        oq.op[k].handle = ExpiredError => oq.op[k].execs = 0 /\ oq.op[k].retries = 0

\* Operation k waits in the queue for a retry.
Requeued(k) == oq.op[k].phase = "queued" /\ oq.op[k].retries > 0

\* C37: when the timer of its retry fires an operation is put at the head
\* of the queue (or starts at once), and while it waits there for its retry
\* the queue starts no other operation, whatever the priorities.
C37_RetriedRunsNext ==
    [][\A k \in DOMAIN oq.op :
          /\ QRetry(k) => \/ oq'.op[k].phase = "executing"
                          \/ oq'.queue # <<>> /\ Head(oq'.queue) = k
          /\ Requeued(k) => \A j \in DOMAIN oq.op \ {k} :
                                ~Starts(j)]_vars

\* C38: in every reachable state at most maxQueueSize operations wait in the
\* queue, whatever the order of enqueue, retries coming back, clear, pause
\* and resume.
C38_AtMostCapacity == Len(oq.queue) <= maxQueueSize

\* What getStatus() returns.
getStatus(q) ==
    [status |-> q.status, pending |-> Len(q.queue), active |-> q.activeOperations]

\* C39: the status getStatus() reports is "paused" whenever the queue is
\* paused, and "idle" only when no operation waits and none executes.
C39_StatusConsistent ==
    /\ oq.isPaused => getStatus(oq).status = "paused"
    /\ getStatus(oq).status = "idle" =>
          getStatus(oq).pending = 0 /\ getStatus(oq).active = 0

(***************************************************************************)
(* Properties of reconnect()                                               *)
(***************************************************************************)
\* The delays of the attempts 1 to 5, in ms.
ReconnectDelays == <<1000, 2000, 4000, 8000, 16000>>

\* A step in which call c enters the backoff delay of reconnect().
EntersBackoff(c) ==
    cp.actor[c].pc # "reconnectDelay" /\ cp'.actor[c].pc = "reconnectDelay"

\* A step in which the loop of executeWithRetry calls reconnect() for call
\* c: an attempt before the last has failed with a connection error that is
\* not the rate limit.
ReconnectCalled(c) ==
    /\ cp.actor[c].attempt < maxRetries
    /\ \/ POperationEnds(c, "read ECONNRESET")
       \/ POperationTimeout(c)
       \/ /\ cp.actor[c].ctx = "get"
          /\ \/ PConnectEnds(c, "connect ECONNREFUSED")
             \/ PConnectTimeout(c)
             \/ PSlotSettled(c) /\ gcm.st[SlotReq(c)] = "rejected"

\* C40: before its k-th attempt in a row reconnect() waits
\* min(1000 * 2^(k-1), 30000) ms, that is 1, 2, 4, 8 and 16 s; the counter
\* of the attempts never exceeds 5; and a reconnect() called with 5 attempts
\* used and no cooldown active sets the health to failed and throws
\* 'Max reconnection attempts reached' without calling connect().
C40_ReconnectBackoff ==
    /\ [][\A c \in Callers :
            EntersBackoff(c) =>
              LET k == cp'.reconnectAttempts
              IN /\ k = 1 + IF cp.actor[c].pc = "reconnectRateWait"
                            THEN 0 ELSE cp.reconnectAttempts
                 /\ k \in 1..maxReconnectAttempts
                 /\ cp'.actor[c].due - now = Min(1000 * (2 ^ (k - 1)), 30000)
                 /\ cp'.actor[c].due - now = ReconnectDelays[k]]_vars
    /\ [](cp.reconnectAttempts <= maxReconnectAttempts)
    /\ [][\A c \in Callers :
            /\ ReconnectCalled(c)
            /\ cp.reconnectAttempts >= maxReconnectAttempts
            /\ ~isRateLimited(gcm, now)
            => /\ cp'.health = "failed"
               /\ cp'.maxReached
               /\ cp'.reconnectAttempts = cp.reconnectAttempts
               /\ ~EntersBackoff(c)
               /\ cp'.actor[c].ctx # "reconnect"]_vars

\* reconnect() has thrown with 5 attempts used; the attempt of
\* executeWithRetry that follows waits for its own connect().
C40_Witness ==
    /\ cp.maxReached
    /\ cp.reconnectAttempts = maxReconnectAttempts
    /\ cp.health = "failed"
    /\ \E c \in Callers : cp.actor[c].pc \in {"acquireSlot", "connecting"}
                          /\ cp.actor[c].ctx = "get"
====
